---- MODULE Spec2Model ----
(***************************************************************************)
(* State-machine model of ParallelOrchestrator (parallel_orchestrator.py): *)
(* the scheduler loop (run_loop), the two agent pools, the completion      *)
(* handlers run by the reader threads, the agents as an environment, and   *)
(* stop_feature / stop_all called from outside the loop.                   *)
(*                                                                         *)
(* Granularity.  One action is one critical section (a `with self._lock`   *)
(* block), one catalog transaction (a session opened and closed), or a     *)
(* sequence of them that no other thread can observe half-way: during      *)
(* start_feature and _maintain_testing_agents the other threads only       *)
(* remove pool entries and only the scheduler thread spawns, so those two  *)
(* are single actions.  The coding completion handler runs on a reader     *)
(* thread concurrently with the scheduler and is split at every lock /     *)
(* transaction boundary: pop, repair, count, signal.                       *)
(*                                                                         *)
(* A child that exits on its own stays in its pool until its reader thread *)
(* pops it, and nothing reads its return code before that: the exit and    *)
(* the pop are one action.  A child killed by stop_feature / stop_all is   *)
(* dead and still in the pool when the stop returns: "killed".             *)
(* The testing pool is keyed by pid and holds (feature_id, proc); neither  *)
(* the pid nor the tested id is read by any decision, so the dict is kept  *)
(* as the number of its entries; a killed testing child and a live one     *)
(* both leave the dict when their reader thread gets to the handler.       *)
(***************************************************************************)
EXTENDS Integers, Sequences, FiniteSets, TLC

\* ---------------------------------------------------------------- bounds
NumFeatures == 3
\* completion handlers of coding agents in flight (between pop and signal) at once
MaxHandlers == 1
\* features 1..NumFlaky have agents that may end with a non-zero code (by
\* failing or by the host's stop_feature) or die between their two catalog
\* writes; the agents of the others exit 0 with their writes complete
NumFlaky == 1
MaxFailures == 2
\* the size of the layered catalog of scenario S1 (A; B, C; D)
NumLayered == 4

\* the ids of the catalogs explored, and every id that can occur
CatalogIds == 1..NumFeatures
Features == 1..(IF NumLayered > NumFeatures THEN NumLayered ELSE NumFeatures)

\* ------------------------------------------------------ program constants
MAX_PARALLEL_AGENTS == 5
MAX_TOTAL_AGENTS == 10
MAX_FEATURE_RETRIES == 3
MAX_TESTING_RATIO == 3

Min(a, b) == IF a <= b THEN a ELSE b
Max(a, b) == IF a >= b THEN a ELSE b

\* __init__: self.max_concurrency = min(max(max_concurrency, 1), MAX_PARALLEL_AGENTS)
ClampConcurrencyNoUpper(n) == Max(n, 1)
ClampConcurrency(n) == Min(Max(n, 1), MAX_PARALLEL_AGENTS)

\* __init__: self.testing_agent_ratio = min(max(testing_agent_ratio, 0), 3)
ClampRatioNoUpper(n) == Max(n, 0)
ClampRatio(n) == Min(Max(n, 0), MAX_TESTING_RATIO)

VARIABLES
    max_concurrency,        \* self.max_concurrency
    testing_agent_ratio,    \* self.testing_agent_ratio
    yolo_mode,              \* self.yolo_mode
    catalog,                \* the Feature table: id -> [passes, in_progress, dependencies, priority]
    running_coding_agents,  \* dict feature_id -> Popen: "running" | "killed"
    abort_events,           \* dict feature_id -> threading.Event (TRUE = set)
    running_testing_agents, \* dict pid -> (feature_id, Popen): its number of entries
    orphaned_testing,       \* testing children cleared from the dict, handler still to run
    failure_counts,         \* self._failure_counts, .get(id, 0)
    handler,                \* per feature: the coding completion handler in flight after its pop
    is_running,             \* self.is_running
    agent_completed_event,  \* self._agent_completed_event (TRUE = set)
    pc,                     \* run_loop's position
    current,                \* run_loop's local `current`
    todo,                   \* run_loop: the slice of features still to start in this iteration
    todo_resume,            \* run_loop: whether the slice is started with resume=True
    stop_pc,                \* stop_all's position (called from outside the loop)
    spawned_argv,           \* history: per feature, the command lines its coding agents were spawned with
    api_result,             \* the (success, message) the host's last start_feature call returned
    maintain_spawned,       \* history: testing agents spawned by the maintenance call under way or just ended
    lock,                   \* self._lock: "free", or the caller holding it across a step
    calls,                  \* per caller: the start_feature / _spawn_testing_agent call it is inside
    status_log              \* history: per feature, the statuses on_status was called with, in order

vars == << max_concurrency, testing_agent_ratio, yolo_mode, catalog,
           running_coding_agents, abort_events, running_testing_agents,
           orphaned_testing, failure_counts, handler, is_running,
           agent_completed_event, pc, current, todo, todo_resume, stop_pc,
           spawned_argv, api_result, maintain_spawned, lock, calls, status_log >>

config_vars == << max_concurrency, testing_agent_ratio, yolo_mode >>
sched_vars == << pc, current, todo, todo_resume >>
log_vars == << spawned_argv, api_result, maintain_spawned >>
call_vars == << lock, calls >>
status_vars == << status_log >>

\* ------------------------------------------------------------- catalogs
\* Dependency graphs and priorities the initializer (or an earlier session)
\* may have stored.  An id above NumFeatures is a dangling reference.
Row(deps, prio) ==
    [passes |-> FALSE, in_progress |-> FALSE, dependencies |-> deps, priority |-> prio]

\* all independent, equal priority
CatalogIndependent == [f \in CatalogIds |-> Row({}, 1)]

\* 1 first; the middle ones depend on 1; the last depends on the middle ones
\* (a chain for three features, the diamond A; B,C; D for four)
CatalogLayered ==
    [f \in CatalogIds |->
        Row(IF f = 1 THEN {}
            ELSE IF f < NumFeatures THEN {1}
            ELSE 2..(NumFeatures - 1), 1)]

\* scenario S1: A; B and C depend on A; D depends on B and C
CatalogDiamond ==
    [f \in 1..NumLayered |->
        Row(IF f = 1 THEN {}
            ELSE IF f < NumLayered THEN {1}
            ELSE 2..(NumLayered - 1), 1)]

\* 1 and 2 depend on each other, the rest are independent
CatalogCycle ==
    [f \in CatalogIds |->
        Row(IF f = 1 THEN {2} ELSE IF f = 2 THEN {1} ELSE {}, 1)]

\* 1 has a dangling dependency; 2 depends on the last feature, which therefore
\* has the higher score; priorities run against the ids
CatalogMixed ==
    [f \in CatalogIds |->
        Row(IF f = 1 THEN {NumFeatures + 1}
            ELSE IF f = 2 THEN {NumFeatures}
            ELSE {}, NumFeatures + 1 - f)]

\* 1 and 2 independent, the rest depend on 2: 2 has the highest score and the
\* worst priority, the dependents the best priority and the highest ids
CatalogPriority ==
    [f \in CatalogIds |->
        Row(IF f <= 2 THEN {} ELSE {2}, IF f = 1 THEN 2 ELSE IF f = 2 THEN 3 ELSE 1)]

\* A catalog left by an interrupted session: the features of `stale` still
\* carry in_progress=True.
Interrupted(cat, stale) ==
    [f \in DOMAIN cat |-> IF f \in stale THEN [cat[f] EXCEPT !.in_progress = TRUE] ELSE cat[f]]

\* A catalog in which an earlier session has completed the features of `done`.
Completed(cat, done) ==
    [f \in DOMAIN cat |-> IF f \in done THEN [cat[f] EXCEPT !.passes = TRUE] ELSE cat[f]]

\* No features yet: run_loop runs the initializer first.
EmptyCatalog == [f \in {} |-> Row({}, 1)]

\* What a successful initializer may leave in the catalog.
InitializerCatalogs == { CatalogLayered, CatalogMixed }

\* The runs explored: constructor arguments <<max_concurrency,
\* testing_agent_ratio, yolo_mode>> as passed by the caller, before clamping,
\* and the catalog found at start-up.
StartupSessions ==
    { << <<0, 3, FALSE>>, CatalogPriority >>,      \* clamps to max_concurrency 1, ratio above it
      << <<2, 1, FALSE>>, Completed(CatalogIndependent, CatalogIds \ {1, 2}) >>,
      << <<MAX_PARALLEL_AGENTS + 2, MAX_TESTING_RATIO + 1, FALSE>>,   \* clamps to 5 and 3
         Completed(CatalogIndependent, CatalogIds \ {1}) >>,
      << <<2, -1, FALSE>>, CatalogCycle >>,        \* clamps to ratio 0: testing disabled
      << <<3, 1, TRUE>>, CatalogMixed >>,          \* yolo mode
      << <<1, 0, FALSE>>, Interrupted(CatalogPriority, CatalogIds \ {1}) >>,
      << <<1, 0, FALSE>>, EmptyCatalog >> }

\* ------------------------------------------------------ catalog queries
FeatureIds == DOMAIN catalog

\* passing_ids = {f.id for f in all_features if f.passes}
PassingIds == {f \in FeatureIds : catalog[f].passes}

\* self._failure_counts.get(f.id, 0) >= MAX_FEATURE_RETRIES
FailedTooOften(f) == failure_counts[f] >= MAX_FEATURE_RETRIES

\* api.dependency_resolver.are_dependencies_satisfied(feature, all, passing_ids)
are_dependencies_satisfied(f) == catalog[f].dependencies \subseteq PassingIds

\* api.dependency_resolver.compute_scheduling_scores(all): the number of
\* features that depend on the feature
compute_scheduling_scores ==
    [f \in FeatureIds |-> Cardinality({g \in FeatureIds : f \in catalog[g].dependencies})]

\* key=lambda f: (-scores.get(f["id"], 0), f["priority"], f["id"]), compared
\* as Python compares tuples
SortKeyNoScore(f) == << 0, catalog[f].priority, f >>
SortKey(f) == << 0 - compute_scheduling_scores[f], catalog[f].priority, f >>

TupleLess(a, b) ==
    \/ a[1] < b[1]
    \/ a[1] = b[1] /\ a[2] < b[2]
    \/ a[1] = b[1] /\ a[2] = b[2] /\ a[3] < b[3]

\* list.sort(key=...): ascending by key
RECURSIVE SortFeatures(_)
SortFeatures(S) ==
    IF S = {} THEN << >>
    ELSE LET m == CHOOSE x \in S : \A y \in S \ {x} : TupleLess(SortKey(x), SortKey(y))
         IN << m >> \o SortFeatures(S \ {m})

\* resumable[:slots], ready[:slots]
Take(s, n) == IF n <= 0 THEN << >> ELSE SubSeq(s, 1, Min(n, Len(s)))

Range(s) == {s[i] : i \in 1..Len(s)}

\* get_resumable_features(): in_progress and not passes, not in the coding
\* pool, not failed too often; sorted
ResumableSetCheckingDependencies ==
    {f \in FeatureIds :
        /\ catalog[f].in_progress
        /\ ~catalog[f].passes
        /\ f \notin DOMAIN running_coding_agents
        /\ ~FailedTooOften(f)
        /\ are_dependencies_satisfied(f)}

ResumableSet ==
    {f \in FeatureIds :
        /\ catalog[f].in_progress
        /\ ~catalog[f].passes
        /\ f \notin DOMAIN running_coding_agents
        /\ ~FailedTooOften(f)}

get_resumable_features == SortFeatures(ResumableSet)

\* get_ready_features(): the loop's filter, then the sort
ReadySetNoInProgressCheck ==
    {f \in FeatureIds :
        /\ ~catalog[f].passes
        /\ f \notin DOMAIN running_coding_agents
        /\ ~FailedTooOften(f)
        /\ are_dependencies_satisfied(f)}

ReadySetNoDependencyCheck ==
    {f \in FeatureIds :
        /\ ~catalog[f].passes
        /\ ~catalog[f].in_progress
        /\ f \notin DOMAIN running_coding_agents
        /\ ~FailedTooOften(f)}

ReadySet ==
    {f \in FeatureIds :
        /\ ~catalog[f].passes
        /\ ~catalog[f].in_progress
        /\ f \notin DOMAIN running_coding_agents
        /\ ~FailedTooOften(f)
        /\ are_dependencies_satisfied(f)}

get_ready_features == SortFeatures(ReadySet)

\* get_all_complete(): False for an empty catalog; otherwise no feature is
\* left that neither passes nor has failed too often
AllCompleteIgnoringFailures ==
    /\ FeatureIds # {}
    /\ \A f \in FeatureIds : catalog[f].passes

get_all_complete ==
    /\ FeatureIds # {}
    /\ \A f \in FeatureIds : catalog[f].passes \/ FailedTooOften(f)

\* get_passing_count()
get_passing_count == Cardinality(PassingIds)

\* _get_random_passing_feature(): the rows the query can return
TestableFeatures == {f \in FeatureIds : catalog[f].passes /\ ~catalog[f].in_progress}

CodingCount == Cardinality(DOMAIN running_coding_agents)
TestingCount == running_testing_agents

\* dict helpers
Without(d, k) == [x \in DOMAIN d \ {k} |-> d[x]]
With(d, k, v) == [x \in DOMAIN d \cup {k} |-> IF x = k THEN v ELSE d[x]]
EmptyDict == [x \in {} |-> 0]

IdleHandler == [step |-> "idle", rc |-> 0]

\* The threads that call start_feature: run_loop's and the host's.
Callers == {"scheduler", "host"}

\* The caller is inside no call.
NoCallInside == [pc |-> "idle", fid |-> 0, resume |-> FALSE]

\* No start_feature call has been made by the host yet.
NoCall == [fid |-> 0, resume |-> FALSE, success |-> FALSE, message |-> "none"]

\* ----------------------------------------------------------------- Init
\* The orchestrator as constructed (__init__), over the catalog it finds.
InitOver(sessions) ==
    /\ \E s \in sessions :
          /\ max_concurrency = ClampConcurrency(s[1][1])
          /\ testing_agent_ratio = ClampRatio(s[1][2])
          /\ yolo_mode = s[1][3]
          /\ catalog = s[2]
    /\ running_coding_agents = EmptyDict
    /\ abort_events = EmptyDict
    /\ running_testing_agents = 0
    /\ orphaned_testing = 0
    /\ failure_counts = [f \in Features |-> 0]
    /\ handler = [f \in Features |-> IdleHandler]
    /\ status_log = [f \in Features |-> << >>]
    /\ is_running = FALSE
    /\ agent_completed_event = FALSE
    /\ pc = "start"
    /\ current = 0
    /\ todo = << >>
    /\ todo_resume = FALSE
    /\ stop_pc = "idle"
    /\ spawned_argv = [f \in Features |-> {}]
    /\ api_result = NoCall
    /\ maintain_spawned = 0
    /\ lock = "free"
    /\ calls = [t \in Callers |-> NoCallInside]

Init == InitOver(StartupSessions)

\* -------------------------------------------------------- start_feature
\* The checks made under the lock before anything else.
AdmissionRefusalNoDuplicateCheck(fid) ==
    IF CodingCount >= max_concurrency THEN "At max concurrency"
    ELSE IF CodingCount + TestingCount >= MAX_TOTAL_AGENTS THEN "At max total agents"
    ELSE "ok"

AdmissionRefusal(fid) ==
    IF fid \in DOMAIN running_coding_agents THEN "Feature already running"
    ELSE IF CodingCount >= max_concurrency THEN "At max concurrency"
    ELSE IF CodingCount + TestingCount >= MAX_TOTAL_AGENTS THEN "At max total agents"
    ELSE "ok"

\* The catalog transaction without its test of passes.
CatalogRefusalNoCompleteCheck(fid, resume) ==
    IF fid \notin FeatureIds THEN "Feature not found"
    ELSE IF resume /\ ~catalog[fid].in_progress THEN "Feature not in progress, cannot resume"
    ELSE IF ~resume /\ catalog[fid].in_progress THEN "Feature already in progress"
    ELSE "ok"

\* The catalog transaction: claim the feature, or verify that it is resumable.
CatalogRefusal(fid, resume) ==
    IF fid \notin FeatureIds THEN "Feature not found"
    ELSE IF catalog[fid].passes THEN "Feature already complete"
    ELSE IF resume /\ ~catalog[fid].in_progress THEN "Feature not in progress, cannot resume"
    ELSE IF ~resume /\ catalog[fid].in_progress THEN "Feature already in progress"
    ELSE "ok"

\* The message start_feature returns before it spawns ("ok": it goes on to spawn).
StartFeatureRefusal(fid, resume) ==
    IF AdmissionRefusal(fid) # "ok" THEN AdmissionRefusal(fid)
    ELSE CatalogRefusal(fid, resume)

\* The command line _spawn_coding_agent builds for a feature: the agent
\* type, the feature id and the yolo flag (project directory and model are
\* fixed per orchestrator); it does not depend on resume or on earlier runs.
CodingArgvCountingAttempts(fid) ==
    [agent_type |-> "coding", feature_id |-> fid, yolo |-> yolo_mode,
     attempt |-> failure_counts[fid]]

CodingArgv(fid) ==
    [agent_type |-> "coding", feature_id |-> fid, yolo |-> yolo_mode]

\* start_feature(fid, resume) with _spawn_coding_agent: refused, spawned, or
\* Popen raised and the claim is released.
StartFeatureClaimsFirst(fid, resume) ==
    \/ /\ CatalogRefusal(fid, resume) # "ok"
       /\ UNCHANGED << catalog, running_coding_agents, abort_events, spawned_argv >>
    \/ /\ CatalogRefusal(fid, resume) = "ok"
       /\ AdmissionRefusal(fid) # "ok"
       /\ catalog' = [catalog EXCEPT ![fid].in_progress = TRUE]
       /\ UNCHANGED << running_coding_agents, abort_events, spawned_argv >>
    \/ /\ StartFeatureRefusal(fid, resume) = "ok"
       /\ catalog' = [catalog EXCEPT ![fid].in_progress = TRUE]
       /\ running_coding_agents' = With(running_coding_agents, fid, "running")
       /\ abort_events' = With(abort_events, fid, FALSE)
       /\ spawned_argv' = [spawned_argv EXCEPT ![fid] = @ \cup {CodingArgv(fid)}]
    \/ /\ StartFeatureRefusal(fid, resume) = "ok"
       /\ catalog' = [catalog EXCEPT ![fid].in_progress = FALSE]
       /\ UNCHANGED << running_coding_agents, abort_events, spawned_argv >>

\* start_feature whose failed spawn leaves the claim in place.
StartFeatureKeepsClaim(fid, resume) ==
    \/ /\ StartFeatureRefusal(fid, resume) # "ok"
       /\ UNCHANGED << catalog, running_coding_agents, abort_events, spawned_argv >>
    \/ /\ StartFeatureRefusal(fid, resume) = "ok"
       /\ catalog' = [catalog EXCEPT ![fid].in_progress = TRUE]
       /\ running_coding_agents' = With(running_coding_agents, fid, "running")
       /\ abort_events' = With(abort_events, fid, FALSE)
       /\ spawned_argv' = [spawned_argv EXCEPT ![fid] = @ \cup {CodingArgv(fid)}]
    \/ /\ StartFeatureRefusal(fid, resume) = "ok"
       /\ catalog' = [catalog EXCEPT ![fid].in_progress = TRUE]
       /\ UNCHANGED << running_coding_agents, abort_events, spawned_argv >>

StartFeature(fid, resume) ==
    \/ /\ StartFeatureRefusal(fid, resume) # "ok"
       /\ UNCHANGED << catalog, running_coding_agents, abort_events, spawned_argv >>
    \/ /\ StartFeatureRefusal(fid, resume) = "ok"
       /\ catalog' = [catalog EXCEPT ![fid].in_progress = TRUE]
       /\ running_coding_agents' = With(running_coding_agents, fid, "running")
       /\ abort_events' = With(abort_events, fid, FALSE)
       /\ spawned_argv' = [spawned_argv EXCEPT ![fid] = @ \cup {CodingArgv(fid)}]
    \/ /\ StartFeatureRefusal(fid, resume) = "ok"
       /\ catalog' = [catalog EXCEPT ![fid].in_progress = FALSE]
       /\ UNCHANGED << running_coding_agents, abort_events, spawned_argv >>

\* ------------------------------------------------- _maintain_testing_agents
\* The early returns before the spawn loop.
MaintainSkipsIgnoringYolo ==
    \/ testing_agent_ratio = 0
    \/ get_passing_count = 0
    \/ get_all_complete

MaintainSkips ==
    \/ yolo_mode
    \/ testing_agent_ratio = 0
    \/ get_passing_count = 0
    \/ get_all_complete

\* The spawn loop's decision under the lock.
MaintainWantsSpawnNoDesiredCheck ==
    CodingCount + TestingCount < MAX_TOTAL_AGENTS

MaintainWantsSpawnWhenEmpty ==
    /\ TestingCount = 0
    /\ CodingCount + TestingCount < MAX_TOTAL_AGENTS

MaintainWantsSpawn ==
    /\ TestingCount < testing_agent_ratio
    /\ CodingCount + TestingCount < MAX_TOTAL_AGENTS

\* _spawn_testing_agent(): its refusals before Popen.
TestingSpawnRefusalOneBelow ==
    IF TestingCount >= max_concurrency - 1 THEN "At max testing agents"
    ELSE IF CodingCount + TestingCount >= MAX_TOTAL_AGENTS THEN "At max total agents"
    ELSE IF TestableFeatures = {} THEN "No features available for testing"
    ELSE "ok"

\* _spawn_testing_agent without its tests of the testing pool's size.
TestingSpawnRefusalTotalOnly ==
    IF CodingCount + TestingCount >= MAX_TOTAL_AGENTS THEN "At max total agents"
    ELSE IF TestableFeatures = {} THEN "No features available for testing"
    ELSE "ok"

TestingSpawnRefusal ==
    IF TestingCount >= max_concurrency THEN "At max testing agents"
    ELSE IF CodingCount + TestingCount >= MAX_TOTAL_AGENTS THEN "At max total agents"
    ELSE IF TestableFeatures = {} THEN "No features available for testing"
    ELSE "ok"

\* ------------------------------------------------------------- run_loop
pool_vars == << running_coding_agents, abort_events, running_testing_agents, orphaned_testing >>
thread_vars == << failure_counts, handler, stop_pc >>

\* run_loop() up to "Phase 1: Check if initialization needed"
RunLoopStart ==
    /\ pc = "start"
    /\ is_running' = TRUE
    /\ pc' = IF FeatureIds = {} THEN "initializer" ELSE "top"
    /\ UNCHANGED << config_vars, status_vars, call_vars, log_vars, catalog, pool_vars, thread_vars,
                    agent_completed_event, current, todo, todo_resume >>

\* _run_initializer() returned True and has_features() holds: the
\* initializer subprocess has committed a catalog.
InitializerSucceeds ==
    /\ pc = "initializer"
    /\ catalog' \in InitializerCatalogs
    /\ pc' = "top"
    /\ UNCHANGED << config_vars, status_vars, call_vars, log_vars, pool_vars, thread_vars, is_running,
                    agent_completed_event, current, todo, todo_resume >>

\* run_loop going on to the feature loop whatever the initializer did.
InitializerFailureIgnored ==
    /\ pc = "initializer"
    /\ catalog' \in InitializerCatalogs \cup {catalog}
    /\ pc' = "top"
    /\ UNCHANGED << config_vars, status_vars, call_vars, log_vars, pool_vars, thread_vars, is_running,
                    agent_completed_event, current, todo, todo_resume >>

\* The initializer timed out or exited non-zero (it may have stored
\* features before that), or it left no features: run_loop returns.
InitializerFails ==
    /\ pc = "initializer"
    /\ catalog' \in InitializerCatalogs \cup {catalog}
    /\ pc' = "returned"
    /\ UNCHANGED << config_vars, status_vars, call_vars, log_vars, pool_vars, thread_vars, is_running,
                    agent_completed_event, current, todo, todo_resume >>

\* The loop clearing the completion event at the start of each iteration.
LoopTopClearingEvent ==
    /\ pc = "top"
    /\ pc' = IF ~is_running \/ get_all_complete THEN "drain" ELSE "maintain"
    /\ agent_completed_event' = FALSE
    /\ UNCHANGED << config_vars, status_vars, call_vars, log_vars, catalog, pool_vars, thread_vars, is_running,
                    current, todo, todo_resume >>

\* `while self.is_running:` and "Check if all complete"
LoopTop ==
    /\ pc = "top"
    /\ pc' = IF ~is_running \/ get_all_complete THEN "drain" ELSE "maintain"
    /\ UNCHANGED << config_vars, status_vars, call_vars, log_vars, catalog, pool_vars, thread_vars, is_running,
                    agent_completed_event, current, todo, todo_resume >>

\* _maintain_testing_agents(): the checks before its loop
MaintainEnter ==
    /\ pc = "maintain"
    /\ pc' = IF MaintainSkips THEN "capacity" ELSE "maintain_loop"
    /\ UNCHANGED << config_vars, status_vars, call_vars, log_vars, catalog, pool_vars, thread_vars, is_running,
                    agent_completed_event, current, todo, todo_resume >>

\* One pass of the `while True` loop that ends the maintenance.
MaintainReturn ==
    /\ pc = "maintain_loop"
    /\ ~MaintainWantsSpawn \/ TestingSpawnRefusal # "ok"
    /\ pc' = "capacity"
    /\ UNCHANGED << config_vars, status_vars, call_vars, log_vars, catalog, pool_vars, thread_vars, is_running,
                    agent_completed_event, current, todo, todo_resume >>

\* One pass that spawns a testing agent for a random passing feature and
\* registers it by pid.
MaintainSpawnOnce ==
    /\ pc = "maintain_loop"
    /\ MaintainWantsSpawn
    /\ TestingSpawnRefusal = "ok"
    /\ \E f \in TestableFeatures :
          running_testing_agents' = running_testing_agents + 1
    /\ maintain_spawned' = Min(maintain_spawned + 1, MAX_TESTING_RATIO)
    /\ pc' = "capacity"
    /\ UNCHANGED << config_vars, status_vars, call_vars, spawned_argv, api_result, catalog, running_coding_agents, abort_events,
                    orphaned_testing, thread_vars, is_running, agent_completed_event,
                    current, todo, todo_resume >>

\* One pass of the spawn loop that marks the feature under test as claimed.
MaintainSpawnClaiming ==
    /\ pc = "maintain_loop"
    /\ MaintainWantsSpawn
    /\ TestingSpawnRefusal = "ok"
    /\ \E f \in TestableFeatures :
          /\ running_testing_agents' = running_testing_agents + 1
          /\ catalog' = [catalog EXCEPT ![f].in_progress = TRUE]
    /\ maintain_spawned' = Min(maintain_spawned + 1, MAX_TESTING_RATIO)
    /\ UNCHANGED << config_vars, status_vars, call_vars, spawned_argv, api_result, running_coding_agents, abort_events,
                    orphaned_testing, thread_vars, is_running, agent_completed_event, sched_vars >>

MaintainSpawn ==
    /\ pc = "maintain_loop"
    /\ MaintainWantsSpawn
    /\ TestingSpawnRefusal = "ok"
    /\ \E f \in TestableFeatures :
          running_testing_agents' = running_testing_agents + 1
    /\ maintain_spawned' = Min(maintain_spawned + 1, MAX_TESTING_RATIO)
    /\ UNCHANGED << config_vars, status_vars, call_vars, spawned_argv, api_result, catalog, running_coding_agents, abort_events,
                    orphaned_testing, thread_vars, is_running, agent_completed_event, sched_vars >>

\* One pass in which Popen raises: the maintenance stops.
MaintainSpawnFails ==
    /\ pc = "maintain_loop"
    /\ MaintainWantsSpawn
    /\ TestingSpawnRefusal = "ok"
    /\ pc' = "capacity"
    /\ UNCHANGED << config_vars, status_vars, call_vars, log_vars, catalog, pool_vars, thread_vars, is_running,
                    agent_completed_event, current, todo, todo_resume >>

\* "Check capacity": current = len(self.running_coding_agents); at capacity
\* the loop waits and `current` is dead, so it is not kept
CheckCapacityOneSpare ==
    /\ pc = "capacity"
    /\ current' = IF CodingCount >= max_concurrency - 1 THEN 0 ELSE CodingCount
    /\ pc' = IF CodingCount >= max_concurrency - 1 THEN "wait" ELSE "resumable"
    /\ maintain_spawned' = 0
    /\ UNCHANGED << config_vars, status_vars, call_vars, spawned_argv, api_result, catalog, pool_vars, thread_vars, is_running,
                    agent_completed_event, todo, todo_resume >>

CheckCapacity ==
    /\ pc = "capacity"
    /\ current' = IF CodingCount >= max_concurrency THEN 0 ELSE CodingCount
    /\ pc' = IF CodingCount >= max_concurrency THEN "wait" ELSE "resumable"
    /\ maintain_spawned' = 0
    /\ UNCHANGED << config_vars, status_vars, call_vars, spawned_argv, api_result, catalog, pool_vars, thread_vars, is_running,
                    agent_completed_event, todo, todo_resume >>

\* slots = self.max_concurrency - current
Slots == max_concurrency - current

\* "Priority 1: Resume features from previous session"
SelectResumableSkipped ==
    /\ pc = "resumable"
    /\ pc' = "ready"
    /\ UNCHANGED << config_vars, status_vars, call_vars, log_vars, catalog, pool_vars, thread_vars, is_running,
                    agent_completed_event, current, todo, todo_resume >>

SelectResumable ==
    /\ pc = "resumable"
    /\ IF get_resumable_features # << >>
       THEN /\ todo' = Take(get_resumable_features, Slots)
            /\ todo_resume' = TRUE
            /\ pc' = "starting"
       ELSE /\ pc' = "ready"
            /\ UNCHANGED << todo, todo_resume >>
    /\ UNCHANGED << config_vars, status_vars, call_vars, log_vars, catalog, pool_vars, thread_vars, is_running,
                    agent_completed_event, current >>

\* "Priority 2: Start new ready features", up to the batch
SelectReady ==
    /\ pc = "ready"
    /\ IF get_ready_features # << >>
       THEN /\ todo' = Take(get_ready_features, Slots)
            /\ todo_resume' = FALSE
            /\ pc' = "starting"
            /\ UNCHANGED current
       ELSE /\ pc' = IF current > 0 THEN "wait" ELSE "recheck"
            /\ current' = 0
            /\ UNCHANGED << todo, todo_resume >>
    /\ UNCHANGED << config_vars, status_vars, call_vars, log_vars, catalog, pool_vars, thread_vars, is_running,
                    agent_completed_event >>

\* "Recheck if all features are now complete": break, or wait as blocked
RecheckBreaks ==
    /\ pc = "recheck"
    /\ pc' = "drain"
    /\ UNCHANGED << config_vars, status_vars, call_vars, log_vars, catalog, pool_vars, thread_vars, is_running,
                    agent_completed_event, current, todo, todo_resume >>

RecheckAllComplete ==
    /\ pc = "recheck"
    /\ pc' = IF get_all_complete THEN "drain" ELSE "wait"
    /\ UNCHANGED << config_vars, status_vars, call_vars, log_vars, catalog, pool_vars, thread_vars, is_running,
                    agent_completed_event, current, todo, todo_resume >>

\* One start_feature call of the batch; after the last one the loop sleeps
\* and goes round.
\* run_loop giving up the rest of the batch when a start fails.
StartNextStopsOnFailure ==
    /\ pc = "starting"
    /\ todo # << >>
    /\ StartFeature(Head(todo), todo_resume)
    /\ IF Tail(todo) = << >> \/ Head(todo) \notin DOMAIN running_coding_agents'
       THEN pc' = "top" /\ current' = 0 /\ todo_resume' = FALSE /\ todo' = << >>
       ELSE todo' = Tail(todo) /\ UNCHANGED << pc, current, todo_resume >>
    /\ UNCHANGED << config_vars, status_vars, call_vars, api_result, maintain_spawned, running_testing_agents,
                    orphaned_testing, thread_vars, is_running, agent_completed_event >>

StartNext ==
    /\ pc = "starting"
    /\ todo # << >>
    /\ StartFeature(Head(todo), todo_resume)
    /\ todo' = Tail(todo)
    /\ IF Tail(todo) = << >>
       THEN pc' = "top" /\ current' = 0 /\ todo_resume' = FALSE
       ELSE UNCHANGED << pc, current, todo_resume >>
    /\ UNCHANGED << config_vars, status_vars, call_vars, api_result, maintain_spawned, running_testing_agents,
                    orphaned_testing, thread_vars, is_running, agent_completed_event >>

\* _wait_for_agent_completion(): the event was set; clear it and return
WaitSignalled ==
    /\ pc \in {"wait", "drain_wait"}
    /\ agent_completed_event
    /\ agent_completed_event' = FALSE
    /\ pc' = IF pc = "wait" THEN "top" ELSE "drain"
    /\ current' = 0
    /\ UNCHANGED << config_vars, status_vars, call_vars, log_vars, catalog, pool_vars, thread_vars, is_running,
                    todo, todo_resume >>

\* _wait_for_agent_completion(): the timeout expired with the event unset
WaitTimedOut ==
    /\ pc \in {"wait", "drain_wait"}
    /\ ~agent_completed_event
    /\ pc' = IF pc = "wait" THEN "top" ELSE "drain"
    /\ current' = 0
    /\ UNCHANGED << config_vars, status_vars, call_vars, log_vars, catalog, pool_vars, thread_vars, is_running,
                    agent_completed_event, todo, todo_resume >>

\* The final loop looking at the coding pool only.
DrainCodingOnly ==
    /\ pc = "drain"
    /\ pc' = IF CodingCount = 0 THEN "finished" ELSE "drain_wait"
    /\ UNCHANGED << config_vars, status_vars, call_vars, log_vars, catalog, pool_vars, thread_vars, is_running,
                    agent_completed_event, current, todo, todo_resume >>

\* "Wait for remaining agents to complete"
Drain ==
    /\ pc = "drain"
    /\ pc' = IF CodingCount = 0 /\ TestingCount = 0 THEN "finished" ELSE "drain_wait"
    /\ UNCHANGED << config_vars, status_vars, call_vars, log_vars, catalog, pool_vars, thread_vars, is_running,
                    agent_completed_event, current, todo, todo_resume >>

\* ------------------------------------------------- the agents (environment)
Flaky(f) == f <= NumFlaky

HandlersInFlight == Cardinality({f \in Features : handler[f].step # "idle"})

\* A coding agent marks its feature as passing ...
AgentMarksPassing(f) ==
    /\ f \in DOMAIN running_coding_agents
    /\ running_coding_agents[f] = "running"
    /\ ~catalog[f].passes
    /\ catalog' = [catalog EXCEPT ![f].passes = TRUE]
    /\ UNCHANGED << config_vars, status_vars, call_vars, log_vars, pool_vars, thread_vars, is_running,
                    agent_completed_event, sched_vars >>

\* ... BEFORE clearing in_progress (_on_agent_complete's docstring)
AgentClearsInProgress(f) ==
    /\ f \in DOMAIN running_coding_agents
    /\ running_coding_agents[f] = "running"
    /\ catalog[f].passes
    /\ catalog[f].in_progress
    /\ catalog' = [catalog EXCEPT ![f].in_progress = FALSE]
    /\ UNCHANGED << config_vars, status_vars, call_vars, log_vars, pool_vars, thread_vars, is_running,
                    agent_completed_event, sched_vars >>

\* ------------------------------------- _on_agent_complete (reader threads)
\* Under the lock: self.running_coding_agents.pop(feature_id, None) and
\* self.abort_events.pop(feature_id, None); the handler goes on with rc.
CodingPop(f, rc) ==
    /\ handler[f].step = "idle"
    /\ HandlersInFlight < MaxHandlers
    /\ handler' = [handler EXCEPT ![f] = [step |-> "repair", rc |-> rc]]
    /\ running_coding_agents' = Without(running_coding_agents, f)
    /\ abort_events' = Without(abort_events, f)
    /\ UNCHANGED << config_vars, status_vars, call_vars, log_vars, catalog, running_testing_agents, orphaned_testing,
                    failure_counts, stop_pc, is_running, agent_completed_event,
                    sched_vars >>

\* A coding agent exits on its own with code 0 or non-zero (rc = 1); its
\* reader thread reaches _on_agent_complete and pops it.
AgentExits(f, rc) ==
    /\ f \in DOMAIN running_coding_agents
    /\ running_coding_agents[f] = "running"
    /\ ~Flaky(f) => rc = 0 /\ (catalog[f].passes => ~catalog[f].in_progress)
    /\ CodingPop(f, rc)

\* The reader thread of a killed coding agent reaches _on_agent_complete
\* with the return code of a killed process (-9).
KilledAgentPopped(f) ==
    /\ f \in DOMAIN running_coding_agents
    /\ running_coding_agents[f] = "killed"
    /\ CodingPop(f, -9)

\* The catalog transaction: if feature and feature.in_progress and not
\* feature.passes: feature.in_progress = False
RepairedKeepingInProgress(f) == catalog

Repaired(f) ==
    IF f \in FeatureIds /\ catalog[f].in_progress /\ ~catalog[f].passes
    THEN [catalog EXCEPT ![f].in_progress = FALSE]
    ELSE catalog

\* The handler counting every exit as a failure.
CodingCompleteRepairAlwaysCounts(f) ==
    /\ handler[f].step = "repair"
    /\ catalog' = Repaired(f)
    /\ handler' = [handler EXCEPT ![f].step = "count"]
    /\ UNCHANGED << config_vars, status_vars, call_vars, log_vars, pool_vars, failure_counts, stop_pc, is_running,
                    agent_completed_event, sched_vars >>

\* The handler repairing the catalog only after a non-zero exit.
CodingCompleteRepairOnFailureOnly(f) ==
    /\ handler[f].step = "repair"
    /\ catalog' = IF handler[f].rc # 0 THEN Repaired(f) ELSE catalog
    /\ handler' = [handler EXCEPT ![f].step = IF handler[f].rc # 0 THEN "count" ELSE "signal"]
    /\ UNCHANGED << config_vars, status_vars, call_vars, log_vars, pool_vars, failure_counts, stop_pc, is_running,
                    agent_completed_event, sched_vars >>

CodingCompleteRepair(f) ==
    /\ handler[f].step = "repair"
    /\ catalog' = Repaired(f)
    /\ handler' = [handler EXCEPT ![f].step = IF handler[f].rc # 0 THEN "count" ELSE "signal"]
    /\ UNCHANGED << config_vars, status_vars, call_vars, log_vars, pool_vars, failure_counts, stop_pc, is_running,
                    agent_completed_event, sched_vars >>

\* if return_code != 0: self._failure_counts[feature_id] += 1
CodingCompleteCount(f) ==
    /\ handler[f].step = "count"
    /\ failure_counts' = [failure_counts EXCEPT ![f] = @ + 1]
    /\ handler' = [handler EXCEPT ![f].step = "signal"]
    /\ UNCHANGED << config_vars, status_vars, call_vars, log_vars, catalog, pool_vars, stop_pc, is_running,
                    agent_completed_event, sched_vars >>

\* on_status(feature_id, status), then _signal_agent_completed()
CodingCompleteSignal(f) ==
    /\ handler[f].step = "signal"
    /\ agent_completed_event' = TRUE
    /\ handler' = [handler EXCEPT ![f] = IdleHandler]
    /\ UNCHANGED << config_vars, status_vars, call_vars, log_vars, catalog, pool_vars, failure_counts, stop_pc,
                    is_running, sched_vars >>

\* A testing agent exits on its own, or the reader thread of a killed one
\* gets there: pop by pid under the lock, then signal.
TestingAgentComplete ==
    /\ running_testing_agents > 0
    /\ running_testing_agents' = running_testing_agents - 1
    /\ agent_completed_event' = TRUE
    /\ UNCHANGED << config_vars, status_vars, call_vars, log_vars, catalog, running_coding_agents, abort_events,
                    orphaned_testing, thread_vars, is_running, sched_vars >>

\* The same for a testing agent stop_all has already cleared from the
\* dict: pop(proc.pid, None) removes nothing.
OrphanedTestingAgentComplete ==
    /\ orphaned_testing > 0
    /\ orphaned_testing' = orphaned_testing - 1
    /\ agent_completed_event' = TRUE
    /\ UNCHANGED << config_vars, status_vars, call_vars, log_vars, catalog, running_coding_agents, abort_events,
                    running_testing_agents, thread_vars, is_running, sched_vars >>

\* ------------------------------------------------ stop_feature, stop_all
\* stop_feature(f) called by the host on a feature in the pool: abort.set(),
\* kill_process_tree(proc)
StopFeature(f) ==
    /\ f \in DOMAIN running_coding_agents
    /\ running_coding_agents[f] = "running"
    /\ Flaky(f)
    /\ abort_events' = [abort_events EXCEPT ![f] = TRUE]
    /\ running_coding_agents' = [running_coding_agents EXCEPT ![f] = "killed"]
    /\ UNCHANGED << config_vars, status_vars, call_vars, log_vars, catalog, running_testing_agents, orphaned_testing,
                    thread_vars, is_running, agent_completed_event, sched_vars >>

\* stop_all(): is_running = False, stop_feature for every coding agent in
\* the pool, kill_process_tree for every testing agent in the pool
StopAllKill ==
    /\ pc # "start"
    /\ stop_pc = "idle"
    /\ is_running' = FALSE
    /\ abort_events' = [f \in DOMAIN abort_events |-> TRUE]
    /\ running_coding_agents' = [f \in DOMAIN running_coding_agents |-> "killed"]
    /\ stop_pc' = "killed"
    /\ UNCHANGED << config_vars, status_vars, call_vars, log_vars, catalog, running_testing_agents,
                    orphaned_testing, failure_counts, handler,
                    agent_completed_event, sched_vars >>

\* stop_all(): self.running_testing_agents.clear(), and return
StopAllClear ==
    /\ stop_pc = "killed"
    /\ running_testing_agents' = 0
    /\ orphaned_testing' = orphaned_testing + TestingCount
    /\ stop_pc' = "returned"
    /\ UNCHANGED << config_vars, status_vars, call_vars, log_vars, catalog, running_coding_agents, abort_events,
                    failure_counts, handler, is_running,
                    agent_completed_event, sched_vars >>

\* ------------------------------------------- start_feature called by the host
\* What start_feature returns: the refusal, or the outcome of the spawn.
StartFeatureReturn(fid, resume) ==
    IF StartFeatureRefusal(fid, resume) # "ok"
    THEN [fid |-> fid, resume |-> resume, success |-> FALSE,
          message |-> StartFeatureRefusal(fid, resume)]
    ELSE IF fid \in DOMAIN running_coding_agents'
    THEN [fid |-> fid, resume |-> resume, success |-> TRUE,
          message |-> "Started feature"]
    ELSE [fid |-> fid, resume |-> resume, success |-> FALSE,
          message |-> "Failed to start agent"]

\* The host (the server's API) calls start_feature directly while run_loop
\* is not running; fid may be an id the catalog does not hold.
HostStartFeature(fid, resume) ==
    /\ pc = "start"
    /\ fid \in Features => failure_counts[fid] < MaxFailures
    /\ StartFeature(fid, resume)
    /\ api_result' = StartFeatureReturn(fid, resume)
    /\ UNCHANGED << config_vars, status_vars, call_vars, maintain_spawned, running_testing_agents, orphaned_testing,
                    thread_vars, is_running, agent_completed_event, sched_vars >>

\* ----------------------------------------------------------------- Next
Next ==
    \/ RunLoopStart
    \/ InitializerSucceeds
    \/ InitializerFails
    \/ LoopTop
    \/ MaintainEnter
    \/ MaintainReturn
    \/ MaintainSpawn
    \/ MaintainSpawnFails
    \/ CheckCapacity
    \/ SelectResumable
    \/ SelectReady
    \/ RecheckAllComplete
    \/ StartNext
    \/ WaitSignalled
    \/ WaitTimedOut
    \/ Drain
    \/ \E f \in Features : AgentMarksPassing(f)
    \/ \E f \in Features : AgentClearsInProgress(f)
    \/ \E f \in Features, rc \in {0, 1} : AgentExits(f, rc)
    \/ \E f \in Features : KilledAgentPopped(f)
    \/ TestingAgentComplete
    \/ OrphanedTestingAgentComplete
    \/ \E f \in Features : CodingCompleteRepair(f)
    \/ \E f \in Features : CodingCompleteCount(f)
    \/ \E f \in Features : CodingCompleteSignal(f)
    \/ \E f \in Features : StopFeature(f)
    \/ StopAllKill
    \/ StopAllClear

Spec == Init /\ [][Next]_vars

\* The orchestrator driven through start_feature and stop_feature by the
\* host alone, run_loop never being started.
ApiNext ==
    \/ \E fid \in Features \cup {0}, resume \in BOOLEAN :
          HostStartFeature(fid, resume)
    \/ \E f \in Features : StopFeature(f)
    \/ \E f \in Features : AgentMarksPassing(f)
    \/ \E f \in Features : AgentClearsInProgress(f)
    \/ \E f \in Features, rc \in {0, 1} : AgentExits(f, rc)
    \/ \E f \in Features : KilledAgentPopped(f)
    \/ \E f \in Features : CodingCompleteRepair(f)
    \/ \E f \in Features : CodingCompleteCount(f)
    \/ \E f \in Features : CodingCompleteSignal(f)

\* The sessions the host drives: one agent at a time over a catalog with
\* two interrupted features, and two at a time over two pending features.
ApiSessions ==
    { << <<1, 0, FALSE>>, Interrupted(CatalogPriority, CatalogIds \ {1}) >>,
      << <<2, 1, FALSE>>, Completed(CatalogIndependent, CatalogIds \ {1, 2}) >> }

ApiInit == InitOver(ApiSessions)

ApiSpec == ApiInit /\ [][ApiNext]_vars

\* ------------------------------------------------------- scenario S1
\* The layered catalog with max_concurrency 2 and testing disabled; agents
\* may fail and the host may stop a feature, stop_all is not called.
S1Sessions == { << <<2, 0, FALSE>>, CatalogDiamond >> }

S1Init == InitOver(S1Sessions)

S1Next ==
    \/ RunLoopStart
    \/ LoopTop
    \/ MaintainEnter
    \/ CheckCapacity
    \/ SelectResumable
    \/ SelectReady
    \/ RecheckAllComplete
    \/ StartNext
    \/ WaitSignalled
    \/ WaitTimedOut
    \/ Drain
    \/ \E f \in Features : AgentMarksPassing(f)
    \/ \E f \in Features : AgentClearsInProgress(f)
    \/ \E f \in Features, rc \in {0, 1} : AgentExits(f, rc)
    \/ \E f \in Features : KilledAgentPopped(f)
    \/ \E f \in Features : CodingCompleteRepair(f)
    \/ \E f \in Features : CodingCompleteCount(f)
    \/ \E f \in Features : CodingCompleteSignal(f)
    \/ \E f \in Features : StopFeature(f)

S1Spec == S1Init /\ [][S1Next]_vars

\* ------------------------------------------------- runs without faults
\* The session in which no process fails to spawn, no agent fails or is
\* stopped, the initializer succeeds, every coding agent exits 0 after it has
\* marked its feature as passing, and a testing agent lives longer than one
\* maintenance call takes.
StartNextSpawning ==
    /\ pc = "starting"
    /\ todo # << >>
    /\ StartNext
    /\ StartFeatureRefusal(Head(todo), todo_resume) = "ok" =>
          Head(todo) \in DOMAIN running_coding_agents'

AgentExitsDone(f) ==
    /\ f \in DOMAIN running_coding_agents
    /\ catalog[f].passes
    /\ AgentExits(f, 0)

TestingAgentOutlivesMaintain ==
    /\ pc # "maintain_loop"
    /\ TestingAgentComplete

SchedulerStep ==
    \/ RunLoopStart
    \/ InitializerSucceeds
    \/ LoopTop
    \/ MaintainEnter
    \/ MaintainReturn
    \/ MaintainSpawn
    \/ CheckCapacity
    \/ SelectResumable
    \/ SelectReady
    \/ RecheckAllComplete
    \/ StartNextSpawning
    \/ WaitSignalled
    \/ WaitTimedOut
    \/ Drain

AgentStep(f) ==
    \/ AgentMarksPassing(f)
    \/ AgentClearsInProgress(f)
    \/ AgentExitsDone(f)

\* (the exit code being 0, the handler does not get to count a failure)
HandlerStep(f) ==
    \/ CodingCompleteRepair(f)
    \/ CodingCompleteSignal(f)

LiveNext ==
    \/ SchedulerStep
    \/ \E f \in Features : AgentStep(f)
    \/ \E f \in Features : HandlerStep(f)
    \/ TestingAgentOutlivesMaintain

\* passing features an earlier session's agents left with in_progress still
\* set (they died between their two catalog writes), and one pending feature
CatalogStuckPassing ==
    [f \in CatalogIds |->
        IF f = 1 THEN Row({}, 1)
        ELSE [Row({}, 1) EXCEPT !.passes = TRUE, !.in_progress = TRUE]]

LiveSessions ==
    { << <<MAX_PARALLEL_AGENTS, MAX_TESTING_RATIO, FALSE>>,
         Completed(CatalogIndependent, CatalogIds \ {1}) >>,
      << <<MAX_PARALLEL_AGENTS, MAX_TESTING_RATIO, FALSE>>, CatalogStuckPassing >>,
      << <<2, 1, FALSE>>, EmptyCatalog >>,
      << <<1, 0, FALSE>>, Interrupted(CatalogPriority, CatalogIds \ {1}) >> }

LiveInit == InitOver(LiveSessions)

\* run_loop is a coroutine that never blocks for good: every wait has a timeout.
FairSpec == LiveInit /\ [][LiveNext]_vars /\ WF_vars(SchedulerStep)

\* ... and every agent process and every reader thread runs on.
LiveSpec ==
    /\ LiveInit /\ [][LiveNext]_vars
    /\ WF_vars(SchedulerStep)
    /\ \A f \in Features : WF_vars(AgentStep(f)) /\ WF_vars(HandlerStep(f))
    /\ WF_vars(TestingAgentOutlivesMaintain)

\* ------------------------------------- concurrent callers, step by step
\* start_feature and _spawn_testing_agent as the sequences of lock sections,
\* catalog transactions and Popen calls they are, with run_loop's thread and
\* a host thread both calling start_feature.  A `with self._lock:` block
\* that contains no Popen is one step taken with the lock free; the block of
\* _spawn_testing_agent that contains Popen holds the lock from one step to
\* the next.  Which feature a caller asks for is left open.

\* start_feature: the admission tests under the lock; the call goes on to
\* the catalog or returns the refusal.
CallAdmission(t, fid, resume) ==
    /\ calls[t].pc = "idle"
    /\ lock = "free"
    /\ failure_counts[fid] < MaxFailures
    /\ calls' = [calls EXCEPT ![t] =
                    IF AdmissionRefusal(fid) = "ok"
                    THEN [pc |-> "catalog", fid |-> fid, resume |-> resume]
                    ELSE NoCallInside]
    /\ UNCHANGED << config_vars, status_vars, log_vars, lock, catalog, pool_vars, thread_vars,
                    is_running, agent_completed_event, sched_vars >>

\* start_feature: the catalog session; a fresh start claims the feature.
CallCatalog(t) ==
    /\ calls[t].pc = "catalog"
    /\ IF CatalogRefusal(calls[t].fid, calls[t].resume) = "ok"
       THEN /\ catalog' = [catalog EXCEPT ![calls[t].fid].in_progress = TRUE]
            /\ calls' = [calls EXCEPT ![t].pc = "popen"]
       ELSE /\ calls' = [calls EXCEPT ![t] = NoCallInside]
            /\ UNCHANGED catalog
    /\ UNCHANGED << config_vars, status_vars, log_vars, lock, pool_vars, thread_vars,
                    is_running, agent_completed_event, sched_vars >>

\* _spawn_coding_agent: subprocess.Popen, called with the lock not taken;
\* if it raises, the claim is released and the call returns.
CallPopen(t) ==
    /\ calls[t].pc = "popen"
    /\ \/ /\ calls' = [calls EXCEPT ![t].pc = "insert"]
          /\ UNCHANGED catalog
       \/ /\ calls' = [calls EXCEPT ![t] = NoCallInside]
          /\ catalog' = [catalog EXCEPT ![calls[t].fid].in_progress = FALSE]
    /\ UNCHANGED << config_vars, status_vars, log_vars, lock, pool_vars, thread_vars,
                    is_running, agent_completed_event, sched_vars >>

\* _spawn_coding_agent: `with self._lock:` the two dict assignments.
CallInsert(t) ==
    /\ calls[t].pc = "insert"
    /\ lock = "free"
    /\ running_coding_agents' = With(running_coding_agents, calls[t].fid, "running")
    /\ abort_events' = With(abort_events, calls[t].fid, FALSE)
    /\ spawned_argv' = [spawned_argv EXCEPT ![calls[t].fid] = @ \cup {CodingArgv(calls[t].fid)}]
    /\ calls' = [calls EXCEPT ![t] = NoCallInside]
    /\ UNCHANGED << config_vars, status_vars, api_result, maintain_spawned, lock, catalog,
                    running_testing_agents, orphaned_testing, thread_vars,
                    is_running, agent_completed_event, sched_vars >>

\* _spawn_testing_agent (run_loop's thread): "Check limits first (under
\* lock)", then _get_random_passing_feature().
TestingCallCheck ==
    /\ calls["scheduler"].pc = "idle"
    /\ lock = "free"
    /\ ~MaintainSkips
    /\ MaintainWantsSpawn
    /\ calls' = [calls EXCEPT !["scheduler"] =
                    IF TestingSpawnRefusal = "ok"
                    THEN [pc |-> "test_lock", fid |-> CHOOSE f \in TestableFeatures : TRUE,
                          resume |-> FALSE]
                    ELSE NoCallInside]
    /\ UNCHANGED << config_vars, status_vars, log_vars, lock, catalog, pool_vars, thread_vars,
                    is_running, agent_completed_event, sched_vars >>

\* _spawn_testing_agent: `with self._lock:` and the re-check of the testing
\* pool's size; the lock stays taken for what follows.
TestingCallLock ==
    /\ calls["scheduler"].pc = "test_lock"
    /\ lock = "free"
    /\ IF TestingCount >= max_concurrency
       THEN /\ calls' = [calls EXCEPT !["scheduler"] = NoCallInside]
            /\ UNCHANGED lock
       ELSE /\ calls' = [calls EXCEPT !["scheduler"].pc = "test_popen"]
            /\ lock' = "scheduler"
    /\ UNCHANGED << config_vars, status_vars, log_vars, catalog, pool_vars, thread_vars,
                    is_running, agent_completed_event, sched_vars >>

\* _spawn_testing_agent: Popen and the insert by pid, inside the lock
\* block; the block ends with the insert or with the return after Popen
\* raised.
TestingCallPopen ==
    /\ calls["scheduler"].pc = "test_popen"
    /\ lock = "scheduler"
    /\ \/ running_testing_agents' = running_testing_agents + 1
       \/ UNCHANGED running_testing_agents
    /\ lock' = "free"
    /\ calls' = [calls EXCEPT !["scheduler"] = NoCallInside]
    /\ UNCHANGED << config_vars, status_vars, log_vars, catalog, running_coding_agents, abort_events,
                    orphaned_testing, thread_vars, is_running, agent_completed_event,
                    sched_vars >>

\* The reader threads take the lock for their pops and for the count.
CallNext ==
    \/ \E t \in Callers, fid \in FeatureIds, resume \in BOOLEAN :
          CallAdmission(t, fid, resume)
    \/ \E t \in Callers : CallCatalog(t)
    \/ \E t \in Callers : CallPopen(t)
    \/ \E t \in Callers : CallInsert(t)
    \/ TestingCallCheck
    \/ TestingCallLock
    \/ TestingCallPopen
    \/ \E f \in Features : AgentMarksPassing(f)
    \/ \E f \in Features : AgentClearsInProgress(f)
    \/ \E f \in Features, rc \in {0, 1} : lock = "free" /\ AgentExits(f, rc)
    \/ lock = "free" /\ TestingAgentComplete
    \/ \E f \in Features : CodingCompleteRepair(f)
    \/ \E f \in Features : lock = "free" /\ CodingCompleteCount(f)
    \/ \E f \in Features : CodingCompleteSignal(f)

\* One coding agent at a time, one testing agent wanted; two features
\* pending, the rest passing.
CallSessions ==
    { << <<1, 1, FALSE>>, Completed(CatalogIndependent, CatalogIds \ {1, 2}) >> }

CallInit == InitOver(CallSessions)

CallSpec == CallInit /\ [][CallNext]_vars

\* ----------------------------------------- the status callback, in order
\* start_feature called for a feature that has not been started before and
\* that no other call is starting.
StatusCallAdmission(t, fid) ==
    /\ spawned_argv[fid] = {}
    /\ \A u \in Callers : calls[u].pc # "idle" => calls[u].fid # fid
    /\ CallAdmission(t, fid, FALSE)

\* _spawn_coding_agent: `with self._lock:` the two dict assignments, then
\* threading.Thread(target=self._read_output, ...).start(); the caller has
\* not called on_status yet.
CallInsertAndStartReader(t) ==
    /\ calls[t].pc = "insert"
    /\ lock = "free"
    /\ running_coding_agents' = With(running_coding_agents, calls[t].fid, "running")
    /\ abort_events' = With(abort_events, calls[t].fid, FALSE)
    /\ spawned_argv' = [spawned_argv EXCEPT ![calls[t].fid] = @ \cup {CodingArgv(calls[t].fid)}]
    /\ calls' = [calls EXCEPT ![t].pc = "status"]
    /\ UNCHANGED << config_vars, status_vars, api_result, maintain_spawned, lock, catalog,
                    running_testing_agents, orphaned_testing, thread_vars,
                    is_running, agent_completed_event, sched_vars >>

\* _spawn_coding_agent: self.on_status(feature_id, "running"), and return
CallStatusRunning(t) ==
    /\ calls[t].pc = "status"
    /\ status_log' = [status_log EXCEPT ![calls[t].fid] = Append(@, "running")]
    /\ calls' = [calls EXCEPT ![t] = NoCallInside]
    /\ UNCHANGED << config_vars, log_vars, lock, catalog, pool_vars, thread_vars,
                    is_running, agent_completed_event, sched_vars >>

\* _on_agent_complete: status = "completed" if return_code == 0 else
\* "failed"; self.on_status(feature_id, status); _signal_agent_completed()
CodingCompleteStatus(f) ==
    /\ handler[f].step = "signal"
    /\ status_log' = [status_log EXCEPT
                        ![f] = Append(@, IF handler[f].rc = 0 THEN "completed" ELSE "failed")]
    /\ agent_completed_event' = TRUE
    /\ handler' = [handler EXCEPT ![f] = IdleHandler]
    /\ UNCHANGED << config_vars, call_vars, log_vars, catalog, pool_vars, failure_counts, stop_pc,
                    is_running, sched_vars >>

StatusNext ==
    \/ \E t \in Callers, fid \in FeatureIds : StatusCallAdmission(t, fid)
    \/ \E t \in Callers : CallCatalog(t)
    \/ \E t \in Callers : CallPopen(t)
    \/ \E t \in Callers : CallInsertAndStartReader(t)
    \/ \E t \in Callers : CallStatusRunning(t)
    \/ \E f \in Features : AgentMarksPassing(f)
    \/ \E f \in Features : AgentClearsInProgress(f)
    \/ \E f \in Features, rc \in {0, 1} : lock = "free" /\ AgentExits(f, rc)
    \/ \E f \in Features : CodingCompleteRepair(f)
    \/ \E f \in Features : lock = "free" /\ CodingCompleteCount(f)
    \/ \E f \in Features : CodingCompleteStatus(f)

\* Two coding agents at a time, no testing; two features pending.
StatusSessions ==
    { << <<2, 0, FALSE>>, Completed(CatalogIndependent, CatalogIds \ {1, 2}) >> }

StatusInit == InitOver(StatusSessions)

StatusSpec == StatusInit /\ [][StatusNext]_vars

\* ------------------------------------ agents that give up without failing
\* The session in which every coding agent exits with code 0 without having
\* marked its feature as passing (it ran out of iterations), nothing fails to
\* spawn and nothing is stopped; testing is disabled.
AgentExitsUnfinished(f) ==
    /\ f \in DOMAIN running_coding_agents
    /\ ~catalog[f].passes
    /\ AgentExits(f, 0)

QuitSchedulerStep ==
    \/ RunLoopStart
    \/ LoopTop
    \/ MaintainEnter
    \/ CheckCapacity
    \/ SelectResumable
    \/ SelectReady
    \/ StartNextSpawning
    \/ WaitSignalled
    \/ WaitTimedOut

QuitNext ==
    \/ QuitSchedulerStep
    \/ \E f \in Features : AgentExitsUnfinished(f)
    \/ \E f \in Features : HandlerStep(f)

QuitSessions ==
    { << <<1, 0, FALSE>>, Completed(CatalogIndependent, CatalogIds \ {1}) >>,
      << <<2, 0, FALSE>>, CatalogIndependent >>,
      << <<1, 0, FALSE>>, Interrupted(CatalogPriority, CatalogIds \ {1}) >> }

QuitInit == InitOver(QuitSessions)

\* The scheduler, every agent and every reader thread run on.
QuitSpec ==
    /\ QuitInit /\ [][QuitNext]_vars
    /\ WF_vars(QuitSchedulerStep)
    /\ \A f \in Features : WF_vars(AgentExitsUnfinished(f)) /\ WF_vars(HandlerStep(f))

\* --------------------------------------------- agents stopped by the host
\* The sessions in which no coding agent fails by itself: an agent exits 0,
\* or the host stops it with stop_feature and it dies of the kill; nothing
\* fails to spawn; testing is disabled.
StopSchedulerStep ==
    \/ RunLoopStart
    \/ LoopTop
    \/ MaintainEnter
    \/ CheckCapacity
    \/ SelectResumable
    \/ SelectReady
    \/ RecheckAllComplete
    \/ StartNextSpawning
    \/ WaitSignalled
    \/ WaitTimedOut
    \/ Drain

StopNext ==
    \/ StopSchedulerStep
    \/ \E f \in Features : AgentMarksPassing(f)
    \/ \E f \in Features : AgentClearsInProgress(f)
    \/ \E f \in Features : AgentExits(f, 0)
    \/ \E f \in Features : StopFeature(f)
    \/ \E f \in Features : KilledAgentPopped(f)
    \/ \E f \in Features : CodingCompleteRepair(f)
    \/ \E f \in Features : CodingCompleteCount(f)
    \/ \E f \in Features : CodingCompleteSignal(f)

StopSessions ==
    { << <<1, 0, FALSE>>, Completed(CatalogIndependent, CatalogIds \ {1}) >>,
      << <<2, 0, FALSE>>, CatalogIndependent >> }

StopInit == InitOver(StopSessions)

StopSpec == StopInit /\ [][StopNext]_vars

\* =============================================================== claims
\* C1: in every reachable state the coding pool holds at most
\* max_concurrency entries, and max_concurrency is itself at most
\* MAX_PARALLEL_AGENTS (5); with max_concurrency = 1 two features are never
\* in the pool together.
CodingPoolWithinConcurrency ==
    /\ Cardinality(DOMAIN running_coding_agents) <= max_concurrency
    /\ max_concurrency <= MAX_PARALLEL_AGENTS

\* C1 witness: max_concurrency = 1, one independent feature is in the pool
\* and another independent feature is ready at that moment.
OneRunningOtherReadyWaits ==
    /\ max_concurrency = 1
    /\ \E f \in DOMAIN running_coding_agents, g \in ReadySet :
          /\ f # g
          /\ catalog[f].dependencies = {}
          /\ catalog[g].dependencies = {}

\* C2: in every reachable state the two pools together hold at most
\* MAX_TOTAL_AGENTS (10) entries, max_concurrency being within 1..5 and
\* testing_agent_ratio within 0..3.
TotalAgentsWithinCap ==
    /\ max_concurrency \in 1..MAX_PARALLEL_AGENTS
    /\ testing_agent_ratio \in 0..3
    /\ Cardinality(DOMAIN running_coding_agents) + running_testing_agents
          <= MAX_TOTAL_AGENTS

\* C2 witness: the largest configuration (5 and 3) with a coding agent and
\* three testing agents pooled at once.
BothPoolsBusyAtLargestConfig ==
    /\ max_concurrency = MAX_PARALLEL_AGENTS
    /\ testing_agent_ratio = 3
    /\ Cardinality(DOMAIN running_coding_agents) >= 1
    /\ running_testing_agents = 3

\* C3: in every reachable state the testing pool holds at most
\* min(testing_agent_ratio, max_concurrency) entries.
TestingPoolWithinRatioAndConcurrency ==
    /\ running_testing_agents <= testing_agent_ratio
    /\ running_testing_agents <= max_concurrency

\* C3 witness: the ratio is above max_concurrency, the testing pool is full
\* at max_concurrency, the maintenance loop still wants another agent and
\* _spawn_testing_agent refuses it.
TestingPoolFullBelowRatio ==
    /\ testing_agent_ratio > max_concurrency
    /\ running_testing_agents = max_concurrency
    /\ pc = "maintain_loop"
    /\ MaintainWantsSpawn
    /\ TestingSpawnRefusal = "At max testing agents"

\* C4: at most one coding agent per feature id: start_feature for an id in
\* the coding pool answers 'Feature already running', whatever the resume
\* flag, and the scheduler never has a pooled id among the starts it is
\* about to make, so no second agent is spawned for a pooled id.
OneCodingAgentPerFeature ==
    /\ \A f \in DOMAIN running_coding_agents : \A resume \in BOOLEAN :
          StartFeatureRefusal(f, resume) = "Feature already running"
    /\ pc = "starting" =>
          \A i \in 1..Len(todo) : todo[i] \notin DOMAIN running_coding_agents

\* C4 witness: a pooled feature that start_feature(id, resume=True) would
\* otherwise admit: the pool has room and the catalog row is resumable.
PooledFeatureOtherwiseStartable ==
    \E f \in DOMAIN running_coding_agents :
        /\ Cardinality(DOMAIN running_coding_agents) < max_concurrency
        /\ ~catalog[f].passes
        /\ catalog[f].in_progress

\* C5: every feature get_ready_features returns has passes = false,
\* in_progress = false, all its dependency ids passing, fewer than
\* MAX_FEATURE_RETRIES failures, and is not in the coding pool.
ReadyFeaturesAreStartable ==
    \A i \in 1..Len(get_ready_features) :
        LET f == get_ready_features[i] IN
        /\ catalog[f].passes = FALSE
        /\ catalog[f].in_progress = FALSE
        /\ \A d \in catalog[f].dependencies : d \in DOMAIN catalog /\ catalog[d].passes
        /\ failure_counts[f] < 3
        /\ f \notin DOMAIN running_coding_agents

\* C5 witness: the scheduler is reading a non-empty ready list while another
\* feature is left out of it only because it is in_progress.
ReadyListLeavesOutInProgress ==
    /\ pc = "ready"
    /\ get_ready_features # << >>
    /\ \E g \in DOMAIN catalog :
          /\ catalog[g].in_progress
          /\ ~catalog[g].passes
          /\ g \notin DOMAIN running_coding_agents
          /\ failure_counts[g] < 3
          /\ \A d \in catalog[g].dependencies : d \in DOMAIN catalog /\ catalog[d].passes

\* (-score[id], priority, id) of f lexicographically below that of g
KeyBelow(f, g) ==
    LET score(x) == Cardinality({y \in DOMAIN catalog : x \in catalog[y].dependencies})
    IN \/ score(f) > score(g)
       \/ score(f) = score(g) /\ catalog[f].priority < catalog[g].priority
       \/ score(f) = score(g) /\ catalog[f].priority = catalog[g].priority /\ f < g

\* C6: the lists of get_ready_features and get_resumable_features are in
\* strictly ascending order of (-score[id], priority, id).
FeatureListsSortedByKey ==
    /\ \A i, j \in 1..Len(get_ready_features) :
          i < j => KeyBelow(get_ready_features[i], get_ready_features[j])
    /\ \A i, j \in 1..Len(get_resumable_features) :
          i < j => KeyBelow(get_resumable_features[i], get_resumable_features[j])

\* C6 witness: the scheduler reads a ready list whose first feature has a
\* worse priority than its second (the score decides), and the same for a
\* resumable list.
ScoreOutranksPriority ==
    \/ /\ pc = "ready"
       /\ Len(get_ready_features) >= 2
       /\ catalog[get_ready_features[1]].priority > catalog[get_ready_features[2]].priority
       /\ get_ready_features[1] > get_ready_features[2]
    \/ /\ pc = "resumable"
       /\ Len(get_resumable_features) >= 2
       /\ catalog[get_resumable_features[1]].priority
             > catalog[get_resumable_features[2]].priority

\* C7 as amended: the handler's catalog step clears in_progress whenever it
\* reads in_progress = true and passes = false (any exit code), and
\* in_progress goes from false to true only in a step in which start_feature
\* puts the feature into the coding pool.
HandlerClearsInProgressUntilReclaimed ==
    [][\A f \in DOMAIN catalog \cap DOMAIN catalog' :
          /\ (/\ handler[f].step = "repair"
              /\ handler'[f].step # "repair"
              /\ catalog[f].in_progress
              /\ ~catalog[f].passes) => ~catalog'[f].in_progress
          /\ (~catalog[f].in_progress /\ catalog'[f].in_progress) =>
                /\ f \notin DOMAIN running_coding_agents
                /\ f \in DOMAIN running_coding_agents']_vars

\* C7 witness: the handler of a non-zero exit is past its catalog step, passes
\* is still false, and start_feature has claimed the feature again.
ReclaimedBeforeHandlerFinished ==
    \E f \in DOMAIN catalog :
        /\ handler[f].step \in {"count", "signal"}
        /\ handler[f].rc # 0
        /\ ~catalog[f].passes
        /\ catalog[f].in_progress
        /\ f \in DOMAIN running_coding_agents

\* C7 as stated: when the completion handler of an agent that exited
\* non-zero finishes with passes still false, the feature has
\* in_progress = false.
InProgressClearedWhenHandlerFinishes ==
    [][\A f \in DOMAIN catalog :
          (/\ handler[f].step = "signal"
           /\ handler'[f].step = "idle"
           /\ handler[f].rc # 0
           /\ ~catalog'[f].passes) => ~catalog'[f].in_progress]_vars

\* Non-zero exits of the coding agents of f that a reader thread has seen:
\* those counted and the one whose handler has not counted yet.
NonZeroExits(f) ==
    failure_counts[f]
      + (IF handler[f].step \in {"repair", "count"} /\ handler[f].rc # 0 THEN 1 ELSE 0)

\* C8: once the coding agents of a feature have exited non-zero
\* MAX_FEATURE_RETRIES (3) times, no coding agent is spawned for it again.
NoSpawnAfterThreeFailures ==
    [][\A f \in Features :
          (f \notin DOMAIN running_coding_agents /\ f \in DOMAIN running_coding_agents')
             => NonZeroExits(f) < 3]_vars

\* no feature is left with passes = false and fewer than 3 failures
NothingPending ==
    \A f \in DOMAIN catalog : ~(~catalog[f].passes /\ failure_counts[f] < 3)

\* C9 as amended: get_all_complete is true exactly when the catalog is not
\* empty and no feature has passes = false with fewer than 3 failures, and an
\* iteration begun with is_running true leaves the loop at its first step
\* exactly in that case.
AllCompleteIffNonEmptyAndNothingPending ==
    [][/\ get_all_complete <=> (DOMAIN catalog # {} /\ NothingPending)
       /\ get_all_complete' <=> (DOMAIN catalog' # {} /\ NothingPending')
       /\ (pc = "top" /\ pc' # "top" /\ is_running) =>
             ((pc' = "drain") <=> (DOMAIN catalog # {} /\ NothingPending))]_vars

\* C9 witness: the loop is at its first step with a feature that failed three
\* times and never passed, and everything else done.
LoopTopWithTerminallyFailedFeature ==
    /\ pc = "top"
    /\ is_running
    /\ DOMAIN catalog # {}
    /\ NothingPending
    /\ \E f \in DOMAIN catalog : ~catalog[f].passes /\ failure_counts[f] >= 3

\* C9 as stated: get_all_complete is true exactly when no feature has
\* passes = false with fewer than 3 failures.
AllCompleteIffNothingPending ==
    get_all_complete <=> NothingPending

\* C10: once stop_all() has returned both pools are empty (and stay so: no
\* agent is spawned afterwards).
PoolsEmptyAfterStopAll ==
    stop_pc = "returned" =>
        /\ DOMAIN running_coding_agents = {}
        /\ running_testing_agents = 0

\* C11: a feature that is not passing, once a coding agent was started for
\* it and that agent is gone from the pool with its completion handler past
\* the catalog step (as after stop_feature), has in_progress cleared, so the
\* catalog admits a new start_feature(id, resume=False); and every coding
\* agent spawned for a feature gets the same command line.
RestartableAfterStop ==
    \A f \in Features :
        /\ Cardinality(spawned_argv[f]) <= 1
        /\ ( /\ spawned_argv[f] # {}
             /\ f \notin DOMAIN running_coding_agents
             /\ handler[f].step # "repair"
             /\ ~catalog[f].passes )
           => /\ ~catalog[f].in_progress
              /\ CatalogRefusal(f, FALSE) = "ok"

\* C11 witness: the agent of a feature was killed by stop_feature, its
\* handler has cleared in_progress and counted the failure, and the host's
\* next start_feature(id, resume=False) has spawned a second agent.
SecondStartAfterStop ==
    \E f \in Features :
        /\ handler[f] = [step |-> "signal", rc |-> -9]
        /\ f \in DOMAIN running_coding_agents
        /\ running_coding_agents[f] = "running"
        /\ api_result = [fid |-> f, resume |-> FALSE, success |-> TRUE,
                         message |-> "Started feature"]
        /\ ~catalog[f].passes
        /\ spawned_argv[f] = {CodingArgv(f)}

\* What a call of _maintain_testing_agents made in this state does to the
\* pools: nothing, when it returns before spawning.
MaintainWouldSpawnNothing ==
    \/ MaintainSkips
    \/ ~MaintainWantsSpawn
    \/ TestingSpawnRefusal # "ok"

NoTestingAgentWhenDisabled ==
    (testing_agent_ratio = 0 \/ yolo_mode) =>
        /\ running_testing_agents = 0
        /\ orphaned_testing = 0

\* C13 witness: in yolo mode with a non-zero ratio, a maintenance call has
\* just returned although a passing feature was there to test, the catalog
\* was not complete and both caps had room.
MaintainSkippedInYoloMode ==
    /\ yolo_mode
    /\ testing_agent_ratio > 0
    /\ pc = "capacity"
    /\ ~get_all_complete
    /\ MaintainWantsSpawn
    /\ TestingSpawnRefusal = "ok"

\* The configuration of C14: ratio 3, max_concurrency 5, yolo off, a feature
\* still pending.
RatioThreeWithPending ==
    /\ testing_agent_ratio = 3
    /\ max_concurrency = 5
    /\ ~yolo_mode
    /\ \E f \in FeatureIds : ~catalog[f].passes /\ ~FailedTooOften(f)

\* C14: under fair scheduling of the loop, whenever the configuration is
\* ratio 3 / max_concurrency 5 / yolo off with a feature pending and a
\* passing feature that is not in progress, the testing pool gets to size 3
\* (unless that condition ends first).
TestingPoolReachesThreeWhenTestable ==
    (RatioThreeWithPending /\ TestableFeatures # {})
        ~> (running_testing_agents = 3
            \/ ~(RatioThreeWithPending /\ TestableFeatures # {}))

\* C14 witness: in that configuration a maintenance call has returned with
\* three testing agents in the pool.
ThreeTestingAgentsAfterMaintain ==
    /\ RatioThreeWithPending
    /\ TestableFeatures # {}
    /\ pc = "capacity"
    /\ running_testing_agents = 3

\* C14 as stated: the same with "at least one passing feature" as the
\* condition on the catalog.
TestingPoolReachesThreeWhenPassing ==
    (RatioThreeWithPending /\ PassingIds # {})
        ~> (running_testing_agents = 3
            \/ ~(RatioThreeWithPending /\ PassingIds # {}))

\* C15: every coding agent the scheduler starts fresh (resume=False) is
\* started for a feature all of whose dependency ids are passing features
\* (an id the catalog does not hold is not passing).  So in scenario S1, B
\* and C are not started before A passes, nor D before B and C pass.
FreshStartsHaveDependenciesPassing ==
    [][\A f \in Features :
          ( /\ pc = "starting"
            /\ ~todo_resume
            /\ f \notin DOMAIN running_coding_agents
            /\ f \in DOMAIN running_coding_agents' )
          => catalog[f].dependencies \subseteq PassingIds]_vars

\* C15 witness: in scenario S1, B and C are both in the pool, A passing, and
\* D waits with its dependencies not yet passing.
DiamondMiddleRunningLastWaits ==
    /\ max_concurrency = 2
    /\ NumLayered \in FeatureIds
    /\ catalog[1].passes
    /\ DOMAIN running_coding_agents = 2..(NumLayered - 1)
    /\ catalog[NumLayered].dependencies = 2..(NumLayered - 1)
    /\ ~catalog[NumLayered].in_progress
    /\ PassingIds = {1}

\* The features a set of features depends on, directly or through others
\* (dependency ids the catalog does not hold lead nowhere).
RECURSIVE DependencyClosure(_, _)
DependencyClosure(S, n) ==
    IF n = 0 THEN S
    ELSE DependencyClosure(
             S \cup UNION {catalog[g].dependencies \cap FeatureIds : g \in S}, n - 1)

Acyclic ==
    \A f \in FeatureIds :
        f \notin DependencyClosure(catalog[f].dependencies \cap FeatureIds,
                                   Cardinality(FeatureIds))

NoDanglingDependency ==
    \A f \in FeatureIds : catalog[f].dependencies \subseteq FeatureIds

\* C16: in a run without faults (every spawned coding agent exits 0 having
\* set passes, every testing agent exits, everything scheduled fairly), if the
\* dependency graph is acyclic and every dependency id is the id of a feature
\* of the catalog, the loop ends with get_all_complete true and run_loop
\* terminates.
RunLoopTerminatesWhenDependenciesResolvable ==
    (pc = "top" /\ Acyclic /\ NoDanglingDependency)
        ~> (pc = "finished" /\ get_all_complete)

\* C16 witness: run_loop has terminated on a catalog with dependencies, all
\* of its features passing.
FinishedLayeredCatalog ==
    /\ pc = "finished"
    /\ get_all_complete
    /\ Acyclic
    /\ NoDanglingDependency
    /\ \E f \in FeatureIds : catalog[f].dependencies # {}
    /\ PassingIds = FeatureIds

\* C16 as stated: the same for every acyclic dependency graph.
RunLoopTerminatesWhenAcyclic ==
    (pc = "top" /\ Acyclic) ~> (pc = "finished" /\ get_all_complete)

\* A feature an interrupted session left claimed and that this session has
\* not started yet: in_progress can otherwise only be set by a start_feature
\* call that spawns.
InterruptedNotYetResumed(f) ==
    /\ f \in FeatureIds
    /\ catalog[f].in_progress
    /\ ~catalog[f].passes
    /\ spawned_argv[f] = {}

OnCycle(f) ==
    /\ f \in FeatureIds
    /\ f \in DependencyClosure(catalog[f].dependencies \cap FeatureIds,
                               Cardinality(FeatureIds))

\* C18: no coding agent is ever spawned for a feature on a dependency
\* cycle, and while such a feature exists the loop is not left unless
\* stop_all has set is_running to false.
CycleNeverStartedLoopNeverLeft ==
    \A f \in Features :
        OnCycle(f) =>
            /\ spawned_argv[f] = {}
            /\ f \notin DOMAIN running_coding_agents
            /\ ~catalog[f].in_progress
            /\ stop_pc = "idle" => pc \notin {"drain", "drain_wait", "finished"}

\* C18 witness: A and B depend on each other, the independent C was started
\* and has passed, nothing is running or ready, and the loop is at its
\* re-check, which finds the catalog not complete and waits as blocked.
BlockedByCycleAfterIndependentPassed ==
    /\ OnCycle(1)
    /\ OnCycle(2)
    /\ PassingIds = FeatureIds \ {1, 2}
    /\ \A f \in PassingIds : spawned_argv[f] # {}
    /\ DOMAIN running_coding_agents = {}
    /\ get_ready_features = << >>
    /\ is_running
    /\ pc = "recheck"
    /\ ~get_all_complete

\* C19: a call of _maintain_testing_agents that gets to its spawn loop
\* (testing enabled, a passing feature, catalog not complete) while a passing
\* feature with in_progress = false exists ends with the testing pool at
\* min(testing_agent_ratio, max_concurrency), unless it ends because
\* spawning a testing agent failed.
MaintainRefillsUnlessSpawnFailed ==
    [][(pc = "maintain_loop" /\ pc' = "capacity" /\ TestableFeatures # {}) =>
          \/ /\ MaintainWantsSpawn
             /\ TestingSpawnRefusal = "ok"
             /\ running_testing_agents' = running_testing_agents
          \/ running_testing_agents' = Min(testing_agent_ratio, max_concurrency)]_vars

\* C19 witness: a call has just ended that found the testing pool non-empty
\* but below min(ratio, max_concurrency), a testing agent having gone, and
\* spawned what was missing.
MaintainRefilledPartlyEmptyPool ==
    /\ pc = "capacity"
    /\ TestableFeatures # {}
    /\ ~get_all_complete
    /\ maintain_spawned > 0
    /\ maintain_spawned < running_testing_agents
    /\ running_testing_agents = Min(testing_agent_ratio, max_concurrency)

\* C19 as stated: every such call ends with the pool at
\* min(testing_agent_ratio, max_concurrency).
MaintainRefills ==
    [][(pc = "maintain_loop" /\ pc' = "capacity" /\ TestableFeatures # {}) =>
          running_testing_agents' = Min(testing_agent_ratio, max_concurrency)]_vars

\* C20: a start_feature call refused for an admission reason (the id is in
\* the coding pool, the pool is at max_concurrency, or the total is at
\* MAX_TOTAL_AGENTS) returns failure with that reason and leaves the pools,
\* the abort map, the retry counters and the catalog as they are; no agent
\* is spawned.
AdmissionRefusalChangesNothing ==
    [][(api_result' # api_result /\ AdmissionRefusal(api_result'.fid) # "ok") =>
          /\ ~api_result'.success
          /\ api_result'.message = AdmissionRefusal(api_result'.fid)
          /\ UNCHANGED << catalog, running_coding_agents, abort_events,
                          running_testing_agents, failure_counts, spawned_argv >>]_vars

\* C20 witness: the host's start_feature for a feature the catalog would
\* have handed out has just been refused because the pool is full.
RefusedAtMaxConcurrency ==
    /\ api_result.fid \in FeatureIds
    /\ ~api_result.success
    /\ api_result.message = "At max concurrency"
    /\ AdmissionRefusal(api_result.fid) = "At max concurrency"
    /\ CatalogRefusal(api_result.fid, api_result.resume) = "ok"
    /\ Cardinality(DOMAIN running_coding_agents) = max_concurrency

\* The reason the catalog gives for rejecting start_feature(fid, resume), in
\* the words of the claim; "none" when it rejects nothing.
CatalogReason(fid, resume) ==
    IF fid \notin FeatureIds THEN "Feature not found"
    ELSE IF catalog[fid].passes THEN "Feature already complete"
    ELSE IF resume /\ ~catalog[fid].in_progress
         THEN "Feature not in progress, cannot resume"
    ELSE IF ~resume /\ catalog[fid].in_progress THEN "Feature already in progress"
    ELSE "none"

\* The pools hold no entry for fid and are below their capacities.
Admissible(fid) ==
    /\ fid \notin DOMAIN running_coding_agents
    /\ CodingCount < max_concurrency
    /\ CodingCount + TestingCount < MAX_TOTAL_AGENTS

\* C21: a start_feature call that passes admission and is rejected by the
\* catalog (feature not found, already passing, resume of a feature not in
\* progress, fresh start of a feature in progress) returns failure with the
\* catalog's reason, spawns nothing and leaves the pools, the abort map, the
\* retry counters and the catalog as they are.
CatalogRefusalChangesNothing ==
    [][(/\ api_result' # api_result
        /\ Admissible(api_result'.fid)
        /\ CatalogReason(api_result'.fid, api_result'.resume) # "none") =>
          /\ ~api_result'.success
          /\ api_result'.message = CatalogReason(api_result'.fid, api_result'.resume)
          /\ UNCHANGED << catalog, running_coding_agents, abort_events,
                          running_testing_agents, failure_counts, spawned_argv >>]_vars

\* C21 witness: with room in the pool, the host's fresh start of a feature
\* that is in progress has just been rejected by the catalog.
RefusedAlreadyInProgress ==
    /\ api_result.fid \in FeatureIds
    /\ ~api_result.resume
    /\ ~api_result.success
    /\ api_result.message = "Feature already in progress"
    /\ catalog[api_result.fid].in_progress
    /\ ~catalog[api_result.fid].passes
    /\ Admissible(api_result.fid)

\* C22: a start_feature call that passed admission and the catalog and
\* still returns failure (spawning the coding agent failed) returns the
\* spawn error, leaves the feature with in_progress = false, inserts the id
\* into neither the coding pool nor the abort map, and leaves the retry
\* counters, the rest of the catalog and the testing pool as they are.
SpawnFailureReleasesClaim ==
    [][(/\ api_result' # api_result
        /\ Admissible(api_result'.fid)
        /\ CatalogReason(api_result'.fid, api_result'.resume) = "none"
        /\ ~api_result'.success) =>
          /\ api_result'.message = "Failed to start agent"
          /\ catalog' = [catalog EXCEPT ![api_result'.fid].in_progress = FALSE]
          /\ api_result'.fid \notin DOMAIN running_coding_agents'
          /\ api_result'.fid \notin DOMAIN abort_events'
          /\ UNCHANGED << running_coding_agents, abort_events,
                          running_testing_agents, failure_counts, spawned_argv >>]_vars

\* C22 witness: the host's fresh start of a pending feature has just failed
\* in the spawn; the feature is unclaimed, not pooled, and its retry counter
\* is still 0.
FreshStartFailedInSpawn ==
    /\ api_result.fid \in FeatureIds
    /\ ~api_result.resume
    /\ ~api_result.success
    /\ api_result.message = "Failed to start agent"
    /\ ~catalog[api_result.fid].in_progress
    /\ ~catalog[api_result.fid].passes
    /\ api_result.fid \notin DOMAIN running_coding_agents
    /\ failure_counts[api_result.fid] = 0
    /\ spawned_argv[api_result.fid] = {}

\* Nothing has been spawned so far: no argv was ever built for a coding
\* agent and neither pool holds or held an agent still alive.
NothingSpawned ==
    /\ \A f \in Features : spawned_argv[f] = {}
    /\ DOMAIN running_coding_agents = {}
    /\ running_testing_agents = 0
    /\ orphaned_testing = 0

\* C23: run_loop enters the initializer only from its start and only when
\* the catalog has no features, never a second time; it goes on to the
\* scheduler loop only with a catalog that has features; nothing is spawned
\* before or during the initializer, and once run_loop has returned from a
\* failed initializer nothing is ever spawned.
InitializerOnceAndFailureSpawnsNothing ==
    /\ [](pc \in {"start", "initializer", "returned"} => NothingSpawned)
    /\ [][/\ (pc = "start" /\ pc' # "start") =>
                 (pc' = "initializer" <=> FeatureIds = {})
          /\ (pc' = "initializer" /\ pc # "initializer") => pc = "start"
          /\ pc' = "start" => pc = "start"
          /\ pc = "initializer" => pc' \in {"initializer", "top", "returned"}
          /\ (pc = "initializer" /\ pc' = "top") => FeatureIds' # {}
          /\ pc = "returned" => pc' = "returned"]_vars

\* C23 witness: run_loop found no features, ran the initializer, which
\* failed after storing features, and returned; nothing was spawned.
ReturnedAfterFailedInitializer ==
    /\ pc = "returned"
    /\ FeatureIds # {}
    /\ is_running
    /\ NothingSpawned

\* C24: a feature's retry counter is raised by exactly one by the completion
\* handler of each coding agent that exited non-zero, before the handler
\* signals; no other step (a zero exit, a testing agent's exit, a refused or
\* failed start, a stop) changes any retry counter, and none ever decreases.
RetryCounterCountsNonZeroExits ==
    [][/\ \A f \in Features :
             /\ failure_counts'[f] >= failure_counts[f]
             /\ failure_counts'[f] # failure_counts[f] =>
                   /\ handler[f].step = "count"
                   /\ handler[f].rc # 0
                   /\ failure_counts' = [failure_counts EXCEPT ![f] = @ + 1]
             /\ (handler[f].step # "signal" /\ handler'[f].step = "signal") =>
                   IF handler[f].rc # 0
                   THEN failure_counts'[f] = failure_counts[f] + 1
                   ELSE failure_counts'[f] = failure_counts[f]
       /\ (running_testing_agents' # running_testing_agents
             \/ orphaned_testing' # orphaned_testing
             \/ pc' # pc
             \/ stop_pc' # stop_pc) => failure_counts' = failure_counts]_vars

\* C24 witness: the handler of a coding agent that exited with code 1 has
\* just counted the exit, the second non-zero exit for its feature.
SecondFailureCounted ==
    \E f \in Features :
        /\ handler[f] = [step |-> "signal", rc |-> 1]
        /\ failure_counts[f] = 2

\* C25: once the scheduler loop has been left, run_loop is finished only
\* with both pools empty: each look at the pools either finds both empty and
\* returns or goes to wait for a completion, and each wait comes back to
\* another look; nothing enters a pool after run_loop has finished.
RunLoopFinishesWithPoolsEmpty ==
    /\ [](pc = "finished" => CodingCount = 0 /\ TestingCount = 0)
    /\ [][/\ (pc = "drain" /\ pc' # pc) =>
                 pc' = IF CodingCount = 0 /\ TestingCount = 0
                       THEN "finished" ELSE "drain_wait"
          /\ (pc = "drain_wait" /\ pc' # pc) => pc' = "drain"
          /\ pc = "finished" => pc' = "finished"]_vars

\* C25 witness: stop_all ended the loop while a feature was pending; the
\* killed agent of a feature whose agents never fail on their own has been
\* reaped by its handler, and run_loop has finished with both pools empty.
FinishedAfterStopWithPoolsEmpty ==
    /\ pc = "finished"
    /\ ~is_running
    /\ ~get_all_complete
    /\ CodingCount = 0
    /\ TestingCount = 0
    /\ \E f \in Features : ~Flaky(f) /\ failure_counts[f] > 0

\* C26 as stated: the handler's last step sets the completion event, and at
\* that moment its feature, unless a new agent has been started for it, has
\* in_progress = false.
SignalledAfterInProgressCleared ==
    [][\A f \in FeatureIds :
          (handler[f].step = "signal" /\ handler'[f].step = "idle") =>
              /\ agent_completed_event'
              /\ f \notin DOMAIN running_coding_agents' =>
                    ~catalog'[f].in_progress]_vars

\* The step is the end of a completion handler: a coding handler's last
\* step, or a testing agent's handler (pop by pid, then signal).
CompletionHandlerEnds ==
    \/ \E f \in Features : handler[f].step = "signal" /\ handler'[f].step = "idle"
    \/ running_testing_agents' = running_testing_agents - 1 /\ stop_pc' = stop_pc
    \/ orphaned_testing' = orphaned_testing - 1

\* The step is the scheduler's return from _wait_for_agent_completion.
WaitReturns == pc \in {"wait", "drain_wait"} /\ pc' # pc

\* C27: the completion event is set only at the end of a completion handler
\* and every completion handler leaves it set; it is cleared only by the
\* scheduler's return from a wait; a wait entered or left with the event set
\* returns on the signal and clears it, so the event stays set from a
\* completion until the next return from a wait, however many completions
\* there were in between.
CompletionEventIsLatch ==
    [][/\ (~agent_completed_event /\ agent_completed_event') => CompletionHandlerEnds
       /\ CompletionHandlerEnds => agent_completed_event'
       /\ (agent_completed_event /\ ~agent_completed_event') => WaitReturns
       /\ WaitReturns => ~agent_completed_event']_vars

\* C27 witness: two coding agents have completed since the scheduler last
\* returned from a wait, none is left in the pool, and the event is still set
\* while the scheduler is selecting features, not waiting.
SignalKeptWhileSchedulerBusy ==
    /\ agent_completed_event
    /\ is_running
    /\ pc = "ready"
    /\ current = 2
    /\ CodingCount = 0
    /\ \A f \in Features : handler[f].step = "idle"

\* The step is a write of the coding agent of f (another process) to the
\* catalog: f's agent is alive and the orchestrator's own state stands still.
AgentWrites(f) ==
    /\ f \in DOMAIN running_coding_agents
    /\ running_coding_agents[f] = "running"
    /\ UNCHANGED << pool_vars, thread_vars, sched_vars, log_vars, is_running,
                    agent_completed_event >>

\* The step is start_feature called for f by the scheduler.
SchedulerStarts(f) == pc = "starting" /\ todo # << >> /\ Head(todo) = f

\* C28: the orchestrator never changes passes (only a feature's own running
\* coding agent does); in_progress becomes true only by a fresh start that
\* puts the feature into the coding pool, and becomes false only in the
\* catalog step of the feature's completion handler, in a start whose spawn
\* failed, or by the agent itself; dependencies and priority never change;
\* a step that changes the testing pool (spawn, completion, stop) changes
\* nothing in the catalog.
CoreWritesOnlyInProgress ==
    [][/\ \A f \in FeatureIds \cap DOMAIN catalog' :
             /\ catalog'[f].passes # catalog[f].passes => AgentWrites(f)
             /\ (~catalog[f].in_progress /\ catalog'[f].in_progress) =>
                   /\ SchedulerStarts(f)
                   /\ ~todo_resume
                   /\ f \notin DOMAIN running_coding_agents
                   /\ f \in DOMAIN running_coding_agents'
             /\ (catalog[f].in_progress /\ ~catalog'[f].in_progress) =>
                   \/ handler[f].step = "repair" /\ handler'[f].step # "repair"
                   \/ SchedulerStarts(f) /\ f \notin DOMAIN running_coding_agents'
                   \/ AgentWrites(f)
             /\ catalog'[f].dependencies = catalog[f].dependencies
             /\ catalog'[f].priority = catalog[f].priority
       /\ FeatureIds # {} => DOMAIN catalog' = FeatureIds
       /\ (running_testing_agents' # running_testing_agents
             \/ orphaned_testing' # orphaned_testing) => catalog' = catalog]_vars

\* C28 witness: testing agents have been spawned and one has completed
\* (the event is set by its handler, no coding agent ever ran) while the
\* feature they test is passing and not in progress, as it was at startup.
TestingAgentsRanCatalogUntouched ==
    /\ running_testing_agents > 0
    /\ agent_completed_event
    /\ \A f \in Features : spawned_argv[f] = {}
    /\ PassingIds # {}
    /\ \A f \in PassingIds : ~catalog[f].in_progress

\* C29 as stated: a caller that spawns a child does not hold the lock while
\* Popen runs, and the insert of the new child is made together with the
\* capacity tests: at the insert the feature is not in the coding pool and
\* the coding pool is below max_concurrency (for the testing pool: it is
\* below max_concurrency), the total below MAX_TOTAL_AGENTS.
SpawnUnlockedInsertRechecked ==
    [][\A t \in Callers :
          /\ (calls[t].pc \in {"popen", "test_popen"} /\ calls'[t].pc # calls[t].pc) =>
                lock # t
          /\ (calls[t].pc = "insert" /\ calls'[t].pc # "insert") =>
                AdmissionRefusal(calls[t].fid) = "ok"
          /\ running_testing_agents' > running_testing_agents =>
                /\ TestingCount < max_concurrency
                /\ CodingCount + TestingCount < MAX_TOTAL_AGENTS]_vars

\* C30 as stated: a feature for which a coding agent was spawned, whose
\* completion handler is past its catalog step or has finished, and which is
\* not in the coding pool again, has in_progress = false, whatever the exit
\* code and whatever passes.
InProgressClearedWhateverPasses ==
    \A f \in FeatureIds :
        (/\ spawned_argv[f] # {}
         /\ f \notin DOMAIN running_coding_agents
         /\ handler[f].step # "repair") => ~catalog[f].in_progress

\* C31 as stated: whenever the scheduler calls get_resumable_features, no
\* feature it returns has had a coding agent spawned by this orchestrator;
\* the features started with resume = true are of that kind.
ResumableNeverSpawnedHere ==
    /\ pc = "resumable" => \A f \in ResumableSet : spawned_argv[f] = {}
    /\ (pc = "starting" /\ todo_resume) => \A f \in Range(todo) : spawned_argv[f] = {}

\* The first min(n, Len(s)) entries of s.
FirstOf(s, n) == [i \in 1..(IF n < Len(s) THEN n ELSE Len(s)) |-> s[i]]

\* C32: in one iteration of run_loop, a coding pool read at max_concurrency
\* or more leads to the wait and to no start; otherwise a non-empty
\* resumable list leads to resume starts only, for its first
\* (max_concurrency - size read) entries, and an empty one to fresh starts
\* for the first (max_concurrency - size read) entries of the ready list (or
\* to none if that is empty); the starts are attempted in list order, one
\* for each entry whether or not the earlier ones succeeded, and a coding
\* agent is spawned by the scheduler nowhere else.
IterationStartsUpToCapacity ==
    [][/\ (pc = "capacity" /\ pc' # pc) =>
             IF CodingCount >= max_concurrency
             THEN pc' = "wait"
             ELSE pc' = "resumable" /\ current' = CodingCount
       /\ (pc = "resumable" /\ pc' # pc) =>
             IF get_resumable_features # << >>
             THEN /\ pc' = "starting"
                  /\ todo_resume'
                  /\ todo' = FirstOf(get_resumable_features, max_concurrency - current)
             ELSE pc' = "ready"
       /\ (pc = "ready" /\ pc' # pc) =>
             IF get_ready_features # << >>
             THEN /\ pc' = "starting"
                  /\ ~todo_resume'
                  /\ todo' = FirstOf(get_ready_features, max_concurrency - current)
             ELSE pc' \in {"wait", "recheck"}
       /\ (pc = "starting" /\ sched_vars' # sched_vars) =>
             /\ todo # << >>
             /\ todo' = Tail(todo)
             /\ IF todo' = << >> THEN pc' = "top"
                ELSE pc' = "starting" /\ todo_resume' = todo_resume
             /\ \A f \in Features \ {Head(todo)} : spawned_argv'[f] = spawned_argv[f]
       /\ (pc = "starting" /\ current < max_concurrency) =>
             Len(todo) <= max_concurrency - current
       /\ (pc # "starting" /\ api_result' = api_result) => spawned_argv' = spawned_argv]_vars

\* C32 witness: with room for two, the first start of a fresh batch failed
\* and the second was made all the same: the later feature of the ready
\* list is the only one an agent was ever spawned for, and the earlier one,
\* which depends on nothing, is still ready.
BatchWentOnAfterFailedStart ==
    /\ max_concurrency >= 2
    /\ pc = "top"
    /\ is_running
    /\ \E f \in ReadySet, g \in DOMAIN running_coding_agents :
          /\ TupleLess(SortKey(f), SortKey(g))
          /\ catalog[f].dependencies = {}
          /\ \A h \in Features : spawned_argv[h] # {} <=> h = g
    /\ \A h \in Features : handler[h].step = "idle" /\ failure_counts[h] = 0

\* C33: the two pools together never hold more than max_concurrency +
\* min(testing_agent_ratio, max_concurrency) agents, which is at most 8 and
\* below MAX_TOTAL_AGENTS; so start_feature never answers "At max total
\* agents", and testing maintenance never meets the total cap, neither in
\* its own loop nor in _spawn_testing_agent.
TotalBelowCapSoCapNeverMet ==
    /\ CodingCount + TestingCount
          <= max_concurrency + Min(testing_agent_ratio, max_concurrency)
    /\ max_concurrency + Min(testing_agent_ratio, max_concurrency) <= 8
    /\ 8 < MAX_TOTAL_AGENTS
    /\ \A f \in Features : AdmissionRefusal(f) # "At max total agents"
    /\ TestingSpawnRefusal # "At max total agents"
    /\ TestingCount < testing_agent_ratio => MaintainWantsSpawn

\* C33 witness: both pools are as full as they get, the coding pool at
\* max_concurrency and the testing pool at min(ratio, max_concurrency), and
\* the total is below the cap.
PoolsAtJointMaximum ==
    /\ CodingCount = max_concurrency
    /\ TestingCount = Min(testing_agent_ratio, max_concurrency)
    /\ TestingCount > 0
    /\ max_concurrency > 1
    /\ CodingCount + TestingCount < MAX_TOTAL_AGENTS

\* C34: when every coding agent exits 0 with passes still false, each
\* completion handler leaves in_progress false and never touches a retry
\* counter, the scheduler loop is never left, and coding agents are spawned
\* again and again without end.
UnfinishedZeroExitsRespawnForever ==
    /\ [](\A f \in Features : failure_counts[f] = 0)
    /\ [](pc \notin {"drain", "drain_wait", "finished", "returned"})
    /\ [][\A f \in FeatureIds :
             (handler[f].step = "repair" /\ handler'[f].step # "repair") =>
                 /\ handler[f].rc = 0
                 /\ handler'[f].step = "signal"
                 /\ ~catalog'[f].passes
                 /\ ~catalog'[f].in_progress]_vars
    /\ []<><<pc = "starting" /\ CodingCount' > CodingCount>>_vars

\* C34 witness: a feature whose agent exited 0 without passing and whose
\* handler has finished is at the head of a batch of fresh starts again, its
\* retry counter still 0.
ReadyAgainAfterUnfinishedExit ==
    /\ pc = "starting"
    /\ ~todo_resume
    /\ todo # << >>
    /\ spawned_argv[Head(todo)] # {}
    /\ handler[Head(todo)].step = "idle"
    /\ failure_counts[Head(todo)] = 0
    /\ ~catalog[Head(todo)].passes
    /\ ~catalog[Head(todo)].in_progress

\* C35 as stated: the reader thread of a killed coding agent counts the kill
\* in the retry counter, and once the agents of a feature have been stopped
\* MAX_FEATURE_RETRIES times no coding agent is started for it again.
StoppedThreeTimesNeverStartedAgain ==
    [][\A f \in Features :
          /\ (handler[f].step = "repair" /\ handler[f].rc # 0 /\ handler'[f].step # "repair")
                => handler'[f].step = "count"
          /\ (handler[f].step = "count" /\ handler'[f].step # "count")
                => failure_counts'[f] = failure_counts[f] + 1
          /\ (f \notin DOMAIN running_coding_agents /\ f \in DOMAIN running_coding_agents')
                => NonZeroExits(f) < MAX_FEATURE_RETRIES]_vars

\* C36 as stated: every feature in the coding pool has in_progress = true
\* or passes = true in the catalog.
PooledFeatureClaimedOrPassing ==
    \A f \in DOMAIN running_coding_agents :
        f \in FeatureIds /\ (catalog[f].in_progress \/ catalog[f].passes)

\* The features a resume is due for: claimed, not passing, below the retry
\* cap, no agent in the pool.
InterruptedSet ==
    {f \in FeatureIds :
        /\ catalog[f].in_progress
        /\ ~catalog[f].passes
        /\ failure_counts[f] < MAX_FEATURE_RETRIES
        /\ f \notin DOMAIN running_coding_agents}

StatusRunningThenOneFinal ==
    \A f \in Features :
        status_log[f] \in { << >>, <<"running">>,
                            <<"running", "completed">>, <<"running", "failed">> }

====
